---------------------------- MODULE DevicesProofs ----------------------------
(***************************************************************************)
(* The devices, for every size: the clock follows the seconds that have    *)
(* elapsed, for any number of them and any date at boot; the ring of       *)
(* keyboard.c is a line discipline; and the echo follows the input.        *)
(***************************************************************************)
EXTENDS Devices, ProofLemmas

-----------------------------------------------------------------------------
(* The time of day.                                                        *)

Sixtieth == 0..59
Hour == 0..23

Time == [second : Sixtieth, minute : Sixtieth, hour : Hour, day : Nat, month : Nat, year : Nat]

LEMMA SameTime ==
    ASSUME NEW t \in Time, NEW u \in Time,
           t.second = u.second, t.minute = u.minute, t.hour = u.hour,
           t.day = u.day, t.month = u.month, t.year = u.year
    PROVE  t = u
  BY DEF Time

(* The time of day is a second of the day. *)
LEMMA SecondOfDayType ==
    ASSUME NEW t \in Time
    PROVE  /\ SecondOfDay(t) = t.hour * 3600 + t.minute * 60 + t.second
           /\ SecondOfDay(t) \in Nat
           /\ SecondOfDay(t) < 86400
  <1>1. t.hour \in 0..23 /\ t.minute \in 0..59 /\ t.second \in 0..59
    BY DEF Time, Sixtieth, Hour
  <1> DEFINE h == t.hour
             m == t.minute
             x == t.second
  <1>3. SecondOfDay(t) = h * 3600 + m * 60 + x
    BY SMT DEF SecondOfDay
  <1>4. h * 3600 + m * 60 + x \in Nat /\ h * 3600 + m * 60 + x < 86400
    <2> HIDE DEF h, m, x
    <2>1. h \in 0..23 /\ m \in 0..59 /\ x \in 0..59
      BY <1>1 DEF h, m, x
    <2> QED BY <2>1, SMT
  <1> HIDE DEF h, m, x
  <1>5. /\ SecondOfDay(t) = h * 3600 + m * 60 + x
        /\ SecondOfDay(t) \in Nat
        /\ SecondOfDay(t) < 86400
    BY <1>3, <1>4, SMT
  <1> QED BY <1>5 DEF h, m, x

Changed(t, x, m, h, d) == [t EXCEPT !.second = x, !.minute = m, !.hour = h, !.day = @ + d]

(* What an update of four fields leaves of the others. *)
LEMMA ChangedTime ==
    ASSUME NEW t \in Time,
           NEW x \in Sixtieth, NEW m \in Sixtieth, NEW h \in Hour, NEW d \in Nat,
           NEW u, u = Changed(t, x, m, h, d)
    PROVE  /\ u \in Time
           /\ u.second = x /\ u.minute = m /\ u.hour = h /\ u.day = t.day + d
           /\ u.month = t.month /\ u.year = t.year
  <1> DEFINE u1 == [t EXCEPT !.second = x]
             u2 == [u1 EXCEPT !.minute = m]
             u3 == [u2 EXCEPT !.hour = h]
             u4 == [u3 EXCEPT !.day = @ + d]
  <1>1. u1 \in Time
    BY SMT DEF Time
  <1>2. u2 \in Time
    <2> HIDE DEF u1
    <2> QED BY <1>1, SMT DEF Time
  <1>3. u3 \in Time
    <2> HIDE DEF u2
    <2> QED BY <1>2, SMT DEF Time
  <1>4. u4 \in Time
    <2> HIDE DEF u3
    <2> QED BY <1>3, SMT DEF Time
  <1>5. u4 = Changed(t, x, m, h, d)
    BY SMT DEF Changed
  <1>6. /\ u4.second = x /\ u4.minute = m /\ u4.hour = h /\ u4.day = t.day + d
        /\ u4.month = t.month /\ u4.year = t.year
    BY SMT DEF Time
  <1> HIDE DEF u4
  <1> QED BY <1>4, <1>5, <1>6

(* Days, hours, minutes and seconds of a number of seconds. *)
LEMMA SplitBy ==
    ASSUME NEW n \in Nat, NEW m \in Nat \ {0}
    PROVE  \E a \in Nat : \E x \in 0..(m - 1) : n = a * m + x
  <1> DEFINE q == n \div m
             p == q * m
  <1>1. q \in Nat /\ p <= n /\ n < (q + 1) * m
    BY Quotients
  <1> HIDE DEF q
  <1>2. (q + 1) * m = p + m /\ p \in Nat
    BY <1>1
  <1>3. n - p \in 0..(m - 1) /\ n = p + (n - p)
    <2> HIDE DEF p
    <2> QED BY <1>1, <1>2
  <1> QED BY <1>1, <1>3

Digits(s, d, h, m, x) ==
    /\ d \in Nat /\ h \in 0..23 /\ m \in 0..59 /\ x \in 0..59
    /\ s = 86400 * d + 3600 * h + 60 * m + x

(* Every number of seconds has such digits. *)
LEMMA HasDigits ==
    ASSUME NEW s \in Nat
    PROVE  \E d, h, m, x : Digits(s, d, h, m, x)
  <1>1. PICK a \in Nat, x \in 0..59 : s = a * 60 + x
    <2>1. 60 \in Nat \ {0}
      BY SMT
    <2>2. \E a \in Nat : \E x \in 0..(60 - 1) : s = a * 60 + x
      BY <2>1, SplitBy, Zenon
    <2> QED BY <2>2, SMT
  <1>2. PICK b \in Nat, m \in 0..59 : a = b * 60 + m
    <2>1. 60 \in Nat \ {0}
      BY SMT
    <2>2. \E b \in Nat : \E m \in 0..(60 - 1) : a = b * 60 + m
      BY <2>1, SplitBy, Zenon
    <2> QED BY <2>2, SMT
  <1>3. PICK d \in Nat, h \in 0..23 : b = d * 24 + h
    <2>1. 24 \in Nat \ {0}
      BY SMT
    <2>2. \E d \in Nat : \E h \in 0..(24 - 1) : b = d * 24 + h
      BY <2>1, SplitBy, Zenon
    <2> QED BY <2>2, SMT
  <1>4. Digits(s, d, h, m, x)
    BY <1>1, <1>2, <1>3, SMT DEF Digits
  <1> QED BY <1>4

(* They are the only ones, so that \div and % find them. *)
LEMMA DigitsAre ==
    ASSUME NEW s, NEW d, NEW h, NEW m, NEW x, Digits(s, d, h, m, x)
    PROVE  /\ s % 60 = x
           /\ (s \div 60) % 60 = m
           /\ (s \div 3600) % 24 = h
           /\ s \div 86400 = d
           /\ s % 86400 = h * 3600 + m * 60 + x
  <1> /\ d \in Nat /\ h \in 0..23 /\ m \in 0..59 /\ x \in 0..59
      /\ s = 86400 * d + 3600 * h + 60 * m + x
    BY DEF Digits
  <1>1. s % 60 = x
    BY SMT
  <1>2. s \div 60 = 1440 * d + 60 * h + m
    BY SMT
  <1>3. (s \div 60) % 60 = m
    BY <1>2, SMT
  <1>4. s \div 3600 = 24 * d + h
    BY SMT
  <1>5. (s \div 3600) % 24 = h
    BY <1>4, SMT
  <1>6. s \div 86400 = d
    BY SMT
  <1>7. s % 86400 = h * 3600 + m * 60 + x
    BY SMT
  <1> QED BY <1>1, <1>3, <1>5, <1>6, <1>7

(* A time is s seconds after midnight of the day before day d. *)
IsTime(u, s, d, month, year) ==
    /\ u \in Time
    /\ u.second = s % 60
    /\ u.minute = (s \div 60) % 60
    /\ u.hour = (s \div 3600) % 24
    /\ u.day = d + s \div 86400
    /\ u.month = month
    /\ u.year = year

(* Later, field by field. *)
LEMMA LaterFields ==
    ASSUME NEW t \in Time, NEW n \in Nat
    PROVE  IsTime(Later(t, n), SecondOfDay(t) + n, t.day, t.month, t.year)
  <1> DEFINE s == SecondOfDay(t) + n
  <1>1. s \in Nat
    <2>1. SecondOfDay(t) \in Nat
      BY SecondOfDayType
    <2> QED BY <2>1, SMT
  <1>2. Later(t, n) = Changed(t, s % 60, (s \div 60) % 60, (s \div 3600) % 24, s \div 86400)
    BY SMT DEF Later, Changed
  <1> HIDE DEF s
  <1>3. PICK d, h, m, x : Digits(s, d, h, m, x)
    BY <1>1, HasDigits
  <1>4. /\ s % 60 = x
        /\ (s \div 60) % 60 = m
        /\ (s \div 3600) % 24 = h
        /\ s \div 86400 = d
    BY <1>3, DigitsAre, SMT
  <1>5. d \in Nat /\ h \in Hour /\ m \in Sixtieth /\ x \in Sixtieth
    BY <1>3 DEF Digits, Hour, Sixtieth
  <1>6. t.day \in Nat /\ t.day + d \in Nat
    BY <1>5, SMT DEF Time
  <1>7. Later(t, n) = Changed(t, x, m, h, d)
    BY <1>2, <1>4, SMT
  <1> DEFINE u == Later(t, n)
  <1> HIDE DEF u
  <1>8. /\ u \in Time
        /\ u.second = x /\ u.minute = m /\ u.hour = h /\ u.day = t.day + d
        /\ u.month = t.month /\ u.year = t.year
    <2>1. u = Changed(t, x, m, h, d)
      BY <1>7 DEF u
    <2> QED BY <1>5, <2>1, ChangedTime, SMT
  <1>9. IsTime(u, s, t.day, t.month, t.year)
    BY <1>4, <1>8, SMT DEF IsTime
  <1> QED BY <1>9 DEF s, u

(* n seconds later the time of day is the sum, modulo a day. *)
LEMMA LaterSecond ==
    ASSUME NEW t \in Time, NEW n \in Nat
    PROVE  SecondOfDay(Later(t, n)) = (SecondOfDay(t) + n) % 86400
  <1> DEFINE s == SecondOfDay(t) + n
             u == Later(t, n)
  <1>1. s \in Nat
    <2>1. SecondOfDay(t) \in Nat
      BY SecondOfDayType
    <2> QED BY <2>1, SMT
  <1>2. IsTime(u, s, t.day, t.month, t.year)
    BY LaterFields
  <1>3. SecondOfDay(u) = u.hour * 3600 + u.minute * 60 + u.second
    <2>1. u \in Time
      BY <1>2 DEF IsTime
    <2> QED BY <2>1, SecondOfDayType, SMT
  <1> HIDE DEF s, u
  <1>4. PICK d, h, m, x : Digits(s, d, h, m, x)
    BY <1>1, HasDigits
  <1>5. /\ s % 60 = x
        /\ (s \div 60) % 60 = m
        /\ (s \div 3600) % 24 = h
        /\ s % 86400 = h * 3600 + m * 60 + x
    BY <1>4, DigitsAre, SMT
  <1>6. u.hour = h /\ u.minute = m /\ u.second = x
    BY <1>2, <1>5, SMT DEF IsTime
  <1>7. SecondOfDay(u) = s % 86400
    BY <1>3, <1>5, <1>6, SMT
  <1> QED BY <1>7 DEF s, u

(* n seconds later and one more is n + 1 seconds later. *)
LEMMA LaterAgain ==
    ASSUME NEW t \in Time, NEW n \in Nat
    PROVE  Later(Later(t, n), 1) = Later(t, n + 1)
  <1> DEFINE s == SecondOfDay(t) + n
             u == Later(t, n)
             r == SecondOfDay(u) + 1
  <1>1. s \in Nat
    <2>1. SecondOfDay(t) \in Nat
      BY SecondOfDayType
    <2> QED BY <2>1, SMT
  <1>2. IsTime(u, s, t.day, t.month, t.year)
    BY LaterFields
  <1>3. SecondOfDay(u) = s % 86400
    BY LaterSecond
  <1>4. IsTime(Later(u, 1), r, u.day, u.month, u.year)
    <2>1. u \in Time
      BY <1>2 DEF IsTime
    <2> HIDE DEF u
    <2> QED BY <2>1, LaterFields
  <1>5. IsTime(Later(t, n + 1), s + 1, t.day, t.month, t.year)
    <2>1. SecondOfDay(t) \in Nat
      BY SecondOfDayType
    <2>2. SecondOfDay(t) + (n + 1) = s + 1
      BY <2>1, SMT
    <2>3. IsTime(Later(t, n + 1), SecondOfDay(t) + (n + 1), t.day, t.month, t.year)
      BY LaterFields
    <2> QED BY <2>2, <2>3
  <1> HIDE DEF s, u
  <1>6. r = (s % 86400) + 1
    BY <1>3
  <1> HIDE DEF r
  <1>7. /\ r % 60 = (s + 1) % 60
        /\ (r \div 60) % 60 = ((s + 1) \div 60) % 60
        /\ (r \div 3600) % 24 = ((s + 1) \div 3600) % 24
        /\ s \div 86400 + r \div 86400 = (s + 1) \div 86400
    <2>1. PICK d, h, m, x : Digits(s, d, h, m, x)
      BY <1>1, HasDigits
    <2>2. /\ d \in Nat /\ h \in 0..23 /\ m \in 0..59 /\ x \in 0..59
          /\ s = 86400 * d + 3600 * h + 60 * m + x
      BY <2>1 DEF Digits
    <2>3. s \div 86400 = d /\ s % 86400 = h * 3600 + m * 60 + x
      BY <2>1, DigitsAre, SMT
    <2>4. ASSUME NEW c \in {0, 1}, NEW i, NEW j, NEW k,
                 Digits(s + 1, d + c, i, j, k), Digits(r, c, i, j, k)
          PROVE  /\ r % 60 = (s + 1) % 60
                 /\ (r \div 60) % 60 = ((s + 1) \div 60) % 60
                 /\ (r \div 3600) % 24 = ((s + 1) \div 3600) % 24
                 /\ s \div 86400 + r \div 86400 = (s + 1) \div 86400
      <3>1. /\ (s + 1) % 60 = k
            /\ ((s + 1) \div 60) % 60 = j
            /\ ((s + 1) \div 3600) % 24 = i
            /\ (s + 1) \div 86400 = d + c
        BY <2>4, DigitsAre, SMT
      <3>2. /\ r % 60 = k
            /\ (r \div 60) % 60 = j
            /\ (r \div 3600) % 24 = i
            /\ r \div 86400 = c
        BY <2>4, DigitsAre, SMT
      <3> QED BY <2>3, <3>1, <3>2, SMT
    <2>5. CASE x < 59
      <3>1. Digits(s + 1, d + 0, h, m, x + 1) /\ Digits(r, 0, h, m, x + 1)
        BY <1>6, <2>2, <2>3, <2>5, SMT DEF Digits
      <3> QED BY <2>4, <3>1, SMT
    <2>6. CASE x = 59 /\ m < 59
      <3>1. Digits(s + 1, d + 0, h, m + 1, 0) /\ Digits(r, 0, h, m + 1, 0)
        BY <1>6, <2>2, <2>3, <2>6, SMT DEF Digits
      <3> QED BY <2>4, <3>1, SMT
    <2>7. CASE x = 59 /\ m = 59 /\ h < 23
      <3>1. Digits(s + 1, d + 0, h + 1, 0, 0) /\ Digits(r, 0, h + 1, 0, 0)
        BY <1>6, <2>2, <2>3, <2>7, SMT DEF Digits
      <3> QED BY <2>4, <3>1, SMT
    <2>8. CASE x = 59 /\ m = 59 /\ h = 23
      <3>1. Digits(s + 1, d + 1, 0, 0, 0) /\ Digits(r, 1, 0, 0, 0)
        BY <1>6, <2>2, <2>3, <2>8, SMT DEF Digits
      <3> QED BY <2>4, <3>1, SMT
    <2> QED BY <2>2, <2>5, <2>6, <2>7, <2>8, SMT
  <1> DEFINE v == Later(u, 1)
             w == Later(t, n + 1)
  <1>8. v \in Time /\ w \in Time
    BY <1>4, <1>5 DEF IsTime
  <1>9. /\ v.second = w.second /\ v.minute = w.minute /\ v.hour = w.hour
        /\ v.month = w.month /\ v.year = w.year
    BY <1>2, <1>4, <1>5, <1>7, SMT DEF IsTime
  <1>10. v.day = w.day
    <2>1. /\ v.day = u.day + r \div 86400
          /\ u.day = t.day + s \div 86400
          /\ w.day = t.day + (s + 1) \div 86400
      BY <1>2, <1>4, <1>5, SMT DEF IsTime
    <2>2. s \div 86400 \in Nat /\ r \div 86400 \in Nat /\ t.day \in Nat
      <3>1. r \in Nat
        BY <1>1, <1>6, SMT
      <3> QED BY <1>1, <3>1, SMT DEF Time
    <2> QED BY <1>7, <2>1, <2>2, SMT
  <1> HIDE DEF v, w
  <1>11. v = w
    BY <1>8, <1>9, <1>10, SameTime
  <1> QED BY <1>11 DEF u, v, w

-----------------------------------------------------------------------------
(* The calendar is advanced by a second.                                   *)

RawTime == [second : Nat, minute : Nat, hour : Nat, day : Nat, month : Nat, year : Nat]

(* What the bytes of the real-time clock may be. *)
LEMMA RawTimes ==
    ASSUME NEW t
    PROVE  /\ t \in Time => t \in RawTime
           /\ t \in RawTime /\ t.second \in Sixtieth /\ t.minute \in Sixtieth /\ t.hour \in Hour
                  => t \in Time
  <1>1. Sixtieth \subseteq Nat /\ Hour \subseteq Nat
    BY DEF Sixtieth, Hour
  <1>2. ASSUME t \in Time
        PROVE  t \in RawTime
    <2>1. t = [second |-> t.second, minute |-> t.minute, hour |-> t.hour,
               day |-> t.day, month |-> t.month, year |-> t.year]
      BY <1>2, SMT DEF Time
    <2>2. /\ t.second \in Nat /\ t.minute \in Nat /\ t.hour \in Nat
          /\ t.day \in Nat /\ t.month \in Nat /\ t.year \in Nat
      <3>1. /\ t.second \in Sixtieth /\ t.minute \in Sixtieth /\ t.hour \in Hour
            /\ t.day \in Nat /\ t.month \in Nat /\ t.year \in Nat
        BY <1>2, SMT DEF Time
      <3> QED BY <1>1, <3>1, Zenon
    <2> QED BY <2>1, <2>2, SMT DEF RawTime
  <1>3. t \in RawTime /\ t.second \in Sixtieth /\ t.minute \in Sixtieth /\ t.hour \in Hour
            => t \in Time
    BY SMT DEF Time, RawTime
  <1> QED BY <1>2, <1>3

LEMMA BytesAreNat ==
    ASSUME NEW n \in Nat
    PROVE  (n + 1) % 2^8 \in Nat
  BY SMT

(* The carries of time.c, one by one. *)
LEMMA CarryMinuteFields ==
    ASSUME NEW t \in RawTime, NEW u, u = CarryMinute(t)
    PROVE  /\ u \in RawTime
           /\ u.second = IF t.second = 60 THEN 0 ELSE t.second
           /\ u.minute = IF t.second = 60 THEN t.minute + 1 ELSE t.minute
           /\ u.hour = t.hour /\ u.day = t.day /\ u.month = t.month /\ u.year = t.year
  <1> DEFINE u1 == [t EXCEPT !.second = 0]
             u2 == [u1 EXCEPT !.minute = @ + 1]
  <1>1. CASE t.second = 60
    <2>1. u = u2
      BY <1>1, SMT DEF CarryMinute
    <2>2. u1 \in RawTime
      BY BytesAreNat, SMT DEF RawTime
    <2>3. u2 \in RawTime
      <3> HIDE DEF u1
      <3> QED BY <2>2, BytesAreNat, SMT DEF RawTime
    <2>4. /\ u2.second = IF t.second = 60 THEN 0 ELSE t.second
          /\ u2.minute = IF t.second = 60 THEN t.minute + 1 ELSE t.minute
          /\ u2.hour = t.hour /\ u2.day = t.day /\ u2.month = t.month /\ u2.year = t.year
      BY <1>1, SMT DEF RawTime
    <2> HIDE DEF u2
    <2> QED BY <2>1, <2>3, <2>4
  <1>2. CASE ~(t.second = 60)
    BY <1>2, SMT DEF CarryMinute
  <1> QED BY <1>1, <1>2

LEMMA CarryHourFields ==
    ASSUME NEW t \in RawTime, NEW u, u = CarryHour(t)
    PROVE  /\ u \in RawTime
           /\ u.minute = IF t.minute = 60 THEN 0 ELSE t.minute
           /\ u.hour = IF t.minute = 60 THEN t.hour + 1 ELSE t.hour
           /\ u.second = t.second /\ u.day = t.day /\ u.month = t.month /\ u.year = t.year
  <1> DEFINE u1 == [t EXCEPT !.minute = 0]
             u2 == [u1 EXCEPT !.hour = @ + 1]
  <1>1. CASE t.minute = 60
    <2>1. u = u2
      BY <1>1, SMT DEF CarryHour
    <2>2. u1 \in RawTime
      BY BytesAreNat, SMT DEF RawTime
    <2>3. u2 \in RawTime
      <3> HIDE DEF u1
      <3> QED BY <2>2, BytesAreNat, SMT DEF RawTime
    <2>4. /\ u2.minute = IF t.minute = 60 THEN 0 ELSE t.minute
          /\ u2.hour = IF t.minute = 60 THEN t.hour + 1 ELSE t.hour
          /\ u2.second = t.second /\ u2.day = t.day /\ u2.month = t.month /\ u2.year = t.year
      BY <1>1, SMT DEF RawTime
    <2> HIDE DEF u2
    <2> QED BY <2>1, <2>3, <2>4
  <1>2. CASE ~(t.minute = 60)
    BY <1>2, SMT DEF CarryHour
  <1> QED BY <1>1, <1>2

LEMMA CarryDayFields ==
    ASSUME NEW t \in RawTime, NEW u, u = CarryDay(t)
    PROVE  /\ u \in RawTime
           /\ u.hour = IF t.hour = 24 THEN 0 ELSE t.hour
           /\ u.day = IF t.hour = 24 THEN (t.day + 1) % 2^8 ELSE t.day
           /\ u.second = t.second /\ u.minute = t.minute /\ u.month = t.month /\ u.year = t.year
  <1> DEFINE u1 == [t EXCEPT !.hour = 0]
             u2 == [u1 EXCEPT !.day = (@ + 1) % 2^8]
  <1>1. CASE t.hour = 24
    <2>1. u = u2
      BY <1>1, SMT DEF CarryDay
    <2>2. u1 \in RawTime
      BY BytesAreNat, SMT DEF RawTime
    <2>3. u2 \in RawTime
      <3> HIDE DEF u1
      <3> QED BY <2>2, BytesAreNat, SMT DEF RawTime
    <2>4. /\ u2.hour = IF t.hour = 24 THEN 0 ELSE t.hour
          /\ u2.day = IF t.hour = 24 THEN (t.day + 1) % 2^8 ELSE t.day
          /\ u2.second = t.second /\ u2.minute = t.minute /\ u2.month = t.month /\ u2.year = t.year
      BY <1>1, SMT DEF RawTime
    <2> HIDE DEF u2
    <2> QED BY <2>1, <2>3, <2>4
  <1>2. CASE ~(t.hour = 24)
    BY <1>2, SMT DEF CarryDay
  <1> QED BY <1>1, <1>2

LEMMA CarryMonthFields ==
    ASSUME NEW t \in RawTime, NEW u, u = CarryMonth(t)
    PROVE  /\ u \in RawTime
           /\ u.second = t.second /\ u.minute = t.minute /\ u.hour = t.hour
           /\ ~DayOverflow(t) => u = t
  <1> DEFINE u1 == [t EXCEPT !.month = (@ + 1) % 2^8]
             u2 == [u1 EXCEPT !.day = 1]
  <1>1. CASE DayOverflow(t)
    <2>1. u = u2
      BY <1>1, SMT DEF CarryMonth
    <2>2. u1 \in RawTime
      BY BytesAreNat, SMT DEF RawTime
    <2>3. u2 \in RawTime
      <3> HIDE DEF u1
      <3> QED BY <2>2, BytesAreNat, SMT DEF RawTime
    <2>4. /\ u2.second = t.second /\ u2.minute = t.minute /\ u2.hour = t.hour
          /\ ~DayOverflow(t) => u = t
      BY <1>1, SMT DEF RawTime
    <2> HIDE DEF u2
    <2> QED BY <2>1, <2>3, <2>4
  <1>2. CASE ~(DayOverflow(t))
    BY <1>2, SMT DEF CarryMonth
  <1> QED BY <1>1, <1>2

LEMMA CarryYearFields ==
    ASSUME NEW t \in RawTime, NEW u, u = CarryYear(t)
    PROVE  /\ u \in RawTime
           /\ u.second = t.second /\ u.minute = t.minute /\ u.hour = t.hour
           /\ t.month # 12 => u = t
  BY BytesAreNat, SMT DEF CarryYear, RawTime

(* A second more, before any carry. *)
LEMMA FirstSecond ==
    ASSUME NEW t \in Time, NEW u, u = [t EXCEPT !.second = @ + 1]
    PROVE  /\ u \in RawTime
           /\ u.second = t.second + 1
           /\ u.minute = t.minute /\ u.hour = t.hour
           /\ u.day = t.day /\ u.month = t.month /\ u.year = t.year
  <1>1. t \in RawTime
    BY RawTimes
  <1> QED BY <1>1, SMT DEF RawTime

(* The carries up to the day: the digits of the next second. *)
NextDay(t) == CarryDay(CarryHour(CarryMinute([t EXCEPT !.second = @ + 1])))

(* The next second, whether it begins a day or not. *)
LEMMA DayCarried ==
    ASSUME NEW t \in Time, NEW u, u = NextDay(t)
    PROVE  /\ u \in Time
           /\ \E c \in {0, 1} :
                  /\ Digits(SecondOfDay(t) + 1, c, u.hour, u.minute, u.second)
                  /\ u.day = IF c = 1 THEN (t.day + 1) % 2^8 ELSE t.day
           /\ u.month = t.month /\ u.year = t.year
  <1> DEFINE t1 == [t EXCEPT !.second = @ + 1]
             t2 == CarryMinute(t1)
             t3 == CarryHour(t2)
  <1>1. u = CarryDay(t3)
    BY SMT DEF NextDay
  <1>2. /\ t1 \in RawTime
        /\ t1.second = t.second + 1
        /\ t1.minute = t.minute /\ t1.hour = t.hour
        /\ t1.day = t.day /\ t1.month = t.month /\ t1.year = t.year
    BY FirstSecond
  <1> HIDE DEF t1
  <1>3. /\ t2 \in RawTime
        /\ t2.second = IF t1.second = 60 THEN 0 ELSE t1.second
        /\ t2.minute = IF t1.second = 60 THEN t1.minute + 1 ELSE t1.minute
        /\ t2.hour = t1.hour /\ t2.day = t1.day /\ t2.month = t1.month /\ t2.year = t1.year
    BY <1>2, CarryMinuteFields
  <1> HIDE DEF t2
  <1>4. /\ t3 \in RawTime
        /\ t3.minute = IF t2.minute = 60 THEN 0 ELSE t2.minute
        /\ t3.hour = IF t2.minute = 60 THEN t2.hour + 1 ELSE t2.hour
        /\ t3.second = t2.second /\ t3.day = t2.day
        /\ t3.month = t2.month /\ t3.year = t2.year
    BY <1>3, CarryHourFields
  <1> HIDE DEF t3
  <1>5. /\ u \in RawTime
        /\ u.hour = IF t3.hour = 24 THEN 0 ELSE t3.hour
        /\ u.day = IF t3.hour = 24 THEN (t3.day + 1) % 2^8 ELSE t3.day
        /\ u.second = t3.second /\ u.minute = t3.minute
        /\ u.month = t3.month /\ u.year = t3.year
    BY <1>1, <1>4, CarryDayFields
  <1> DEFINE h == t.hour
             m == t.minute
             x == t.second
  <1>6. h \in 0..23 /\ m \in 0..59 /\ x \in 0..59
    BY SMT DEF Time, Hour, Sixtieth
  <1>7. SecondOfDay(t) = h * 3600 + m * 60 + x
    BY SecondOfDayType
  <1> HIDE DEF h, m, x
  <1>8. /\ t1.second = x + 1 /\ t1.minute = m /\ t1.hour = h /\ t1.day = t.day
        /\ t1.month = t.month /\ t1.year = t.year
    BY <1>2 DEF h, m, x
  <1>9. u.month = t.month /\ u.year = t.year
    BY <1>3, <1>4, <1>5, <1>8, SMT
  <1>10. ASSUME NEW c \in {0, 1}, Digits(SecondOfDay(t) + 1, c, u.hour, u.minute, u.second),
                u.day = IF c = 1 THEN (t.day + 1) % 2^8 ELSE t.day
         PROVE  /\ u \in Time
                /\ \E e \in {0, 1} :
                       /\ Digits(SecondOfDay(t) + 1, e, u.hour, u.minute, u.second)
                       /\ u.day = IF e = 1 THEN (t.day + 1) % 2^8 ELSE t.day
    <2>1. u \in Time
      <3>1. u.hour \in Hour /\ u.minute \in Sixtieth /\ u.second \in Sixtieth
        BY <1>10, SMT DEF Digits, Hour, Sixtieth
      <3> QED BY <1>5, <3>1, RawTimes
    <2> QED BY <1>10, <2>1
  <1>11. CASE x < 59
    <2>1. u.second = x + 1 /\ u.minute = m /\ u.hour = h /\ u.day = t.day
      BY <1>3, <1>4, <1>5, <1>6, <1>8, <1>11, SMT
    <2>2. Digits(SecondOfDay(t) + 1, 0, u.hour, u.minute, u.second)
      BY <1>6, <1>7, <1>11, <2>1, SMT DEF Digits
    <2> QED BY <1>9, <1>10, <2>1, <2>2, SMT
  <1>12. CASE x = 59 /\ m < 59
    <2>1. u.second = 0 /\ u.minute = m + 1 /\ u.hour = h /\ u.day = t.day
      BY <1>3, <1>4, <1>5, <1>6, <1>8, <1>12, SMT
    <2>2. Digits(SecondOfDay(t) + 1, 0, u.hour, u.minute, u.second)
      BY <1>6, <1>7, <1>12, <2>1, SMT DEF Digits
    <2> QED BY <1>9, <1>10, <2>1, <2>2, SMT
  <1>13. CASE x = 59 /\ m = 59 /\ h < 23
    <2>1. u.second = 0 /\ u.minute = 0 /\ u.hour = h + 1 /\ u.day = t.day
      BY <1>3, <1>4, <1>5, <1>6, <1>8, <1>13, SMT
    <2>2. Digits(SecondOfDay(t) + 1, 0, u.hour, u.minute, u.second)
      BY <1>6, <1>7, <1>13, <2>1, SMT DEF Digits
    <2> QED BY <1>9, <1>10, <2>1, <2>2, SMT
  <1>14. CASE x = 59 /\ m = 59 /\ h = 23
    <2>1. u.second = 0 /\ u.minute = 0 /\ u.hour = 0 /\ u.day = (t.day + 1) % 2^8
      BY <1>3, <1>4, <1>5, <1>6, <1>8, <1>14, SMT
    <2>2. Digits(SecondOfDay(t) + 1, 1, u.hour, u.minute, u.second)
      BY <1>6, <1>7, <1>14, <2>1, SMT DEF Digits
    <2> QED BY <1>9, <1>10, <2>1, <2>2, SMT
  <1> QED BY <1>6, <1>11, <1>12, <1>13, <1>14, SMT

(* The time of day is right after a carry of the month, too. *)
LEMMA AdvanceSecond ==
    ASSUME NEW t \in Time
    PROVE  /\ Advance(t) \in Time
           /\ SecondOfDay(Advance(t)) = (SecondOfDay(t) + 1) % 86400
  <1> DEFINE u == NextDay(t)
             v == CarryMonth(u)
             w == CarryYear(v)
  <1>1. Advance(t) = w
    BY SMT DEF Advance, NextDay
  <1>2. u \in Time /\ \E c \in {0, 1} : Digits(SecondOfDay(t) + 1, c, u.hour, u.minute, u.second)
    BY DayCarried
  <1> HIDE DEF u
  <1>3. u \in RawTime
    BY <1>2, RawTimes
  <1>4. v \in RawTime /\ v.second = u.second /\ v.minute = u.minute /\ v.hour = u.hour
    BY <1>3, CarryMonthFields
  <1> HIDE DEF v
  <1>5. w \in RawTime /\ w.second = u.second /\ w.minute = u.minute /\ w.hour = u.hour
    <2>1. w \in RawTime /\ w.second = v.second /\ w.minute = v.minute /\ w.hour = v.hour
      BY <1>4, CarryYearFields
    <2> HIDE DEF w
    <2> QED BY <1>4, <2>1
  <1> HIDE DEF w
  <1>6. w \in Time
    <2>1. u.second \in Sixtieth /\ u.minute \in Sixtieth /\ u.hour \in Hour
      BY <1>2, SMT DEF Time
    <2> QED BY <1>5, <2>1, RawTimes
  <1>7. SecondOfDay(w) = u.hour * 3600 + u.minute * 60 + u.second
    <2>1. SecondOfDay(w) = w.hour * 3600 + w.minute * 60 + w.second
      BY <1>6, SecondOfDayType
    <2> QED BY <1>5, <2>1, SMT
  <1>8. PICK c : Digits(SecondOfDay(t) + 1, c, u.hour, u.minute, u.second)
    BY <1>2
  <1>9. (SecondOfDay(t) + 1) % 86400 = u.hour * 3600 + u.minute * 60 + u.second
    BY <1>8, DigitsAre, SMT
  <1> QED BY <1>1, <1>6, <1>7, <1>9, SMT

(* The months that end on the right day, or later: by the entry of         *)
(* day_in_month for the next one.                                          *)
LEMMA MonthsAreLong ==
    ASSUME NEW t \in Time, t.month \in 1..11, t.day \in 1..27
    PROVE  ~DayOverflow(t)
  <1>1. t.month = 2 => ~DayOverflow(t)
    BY SMT DEF DayOverflow
  <1>2. ASSUME t.month # 2
        PROVE  DayInMonth(t.month) \in {0, 30, 31}
    BY <1>2, SMT DEF DayInMonth, day_in_month
  <1>3. t.month # 2 => ~DayOverflow(t)
    BY <1>2, SMT DEF DayOverflow
  <1> QED BY <1>1, <1>3

(* The date is right until the 27th. *)
LEMMA AdvanceIsLater ==
    ASSUME NEW t \in Time, t.month \in 1..11, t.day \in Nat \ {0}, Later(t, 1).day <= 27
    PROVE  Advance(t) = Later(t, 1)
  <1> DEFINE u == NextDay(t)
             v == Later(t, 1)
             s == SecondOfDay(t) + 1
  <1>1. IsTime(v, s, t.day, t.month, t.year)
    BY LaterFields
  <1>2. u \in Time /\ u.month = t.month /\ u.year = t.year
    BY DayCarried
  <1>3. PICK c \in {0, 1} :
            /\ Digits(s, c, u.hour, u.minute, u.second)
            /\ u.day = IF c = 1 THEN (t.day + 1) % 2^8 ELSE t.day
    BY DayCarried
  <1>4. Advance(t) = CarryYear(CarryMonth(u))
    BY SMT DEF Advance, NextDay
  <1> HIDE DEF u, v, s
  <1>5. /\ s % 60 = u.second
        /\ (s \div 60) % 60 = u.minute
        /\ (s \div 3600) % 24 = u.hour
        /\ s \div 86400 = c
    BY <1>3, DigitsAre, SMT
  <1>6. v.day = t.day + c /\ v.day \in 1..27
    <2>1. v.day = t.day + c
      BY <1>1, <1>5, SMT DEF IsTime
    <2>2. v.day <= 27
      BY DEF v
    <2> QED BY <2>1, <2>2, SMT
  <1>7. u.day = v.day
    BY <1>3, <1>6, SMT
  <1>8. u = v
    <2>1. v \in Time /\ v.month = t.month /\ v.year = t.year
      BY <1>1, SMT DEF IsTime
    <2>2. v.second = u.second /\ v.minute = u.minute /\ v.hour = u.hour
      BY <1>1, <1>5, SMT DEF IsTime
    <2> QED BY <1>2, <1>7, <2>1, <2>2, SameTime
  <1>9. ~DayOverflow(u) /\ u.month # 12
    <2>1. u.month \in 1..11 /\ u.day \in 1..27
      BY <1>2, <1>6, <1>7
    <2> QED BY <1>2, <2>1, MonthsAreLong
  <1>10. CarryMonth(u) = u
    BY <1>9, SMT DEF CarryMonth
  <1>11. CarryYear(u) = u
    BY <1>9, SMT DEF CarryYear
  <1> QED BY <1>4, <1>8, <1>10, <1>11 DEF v

-----------------------------------------------------------------------------
(* The registers of the real-time clock, and what handle_rtc_interrupt     *)
(* makes of them.                                                          *)

Field == {"second", "minute", "hour", "day", "month", "year"}

(* What fits into two decimal digits. *)
ShortTime == {t \in Time : t.day \in 1..32 /\ t.month \in 1..12 /\ t.year \in 0..99}

LEMMA Fields ==
    ASSUME NEW t \in Time
    PROVE  DOMAIN t = Field
  BY SMT DEF Time, Field

(* Every field of a date fits into two decimal digits. *)
LEMMA TwoDigits ==
    ASSUME NEW t \in ShortTime, NEW f \in Field
    PROVE  t[f] \in 0..99
  <1>1. t \in Time /\ t.day \in 0..99 /\ t.month \in 0..99 /\ t.year \in 0..99
    BY SMT DEF ShortTime
  <1>2. t.second \in 0..99 /\ t.minute \in 0..99 /\ t.hour \in 0..99
    <2>1. t.second \in Sixtieth /\ t.minute \in Sixtieth /\ t.hour \in Hour
      BY <1>1, SMT DEF Time
    <2> QED BY <2>1, SMT DEF Sixtieth, Hour
  <1> QED BY <1>1, <1>2, SMT DEF Field

(* Decimal digits survive BCD. *)
LEMMA BcdRoundTrip ==
    ASSUME NEW n \in 0..99
    PROVE  FromBcd(Bcd(n)) = n
  BY SMT DEF FromBcd, Bcd

(* The hour, as the handler reads it: 128 is set in the afternoon. *)
HourRead(h, s) == IF s.h24 THEN h
                  ELSE ((h + 11) % 12) + 1 + (IF h >= 12 THEN 128 ELSE 0)

(* And so does the hour in its register, in each of the four formats. *)
LEMMA HourRoundTrip ==
    ASSUME NEW h \in 0..23, NEW s, s.bcd \in BOOLEAN, s.h24 \in BOOLEAN
    PROVE  LET r == HourRegister(h, s)
           IN  (IF ~s.bcd THEN r ELSE FromBcd(r % 128) + (r \div 128) * 128) = HourRead(h, s)
  <1>1. ASSUME NEW n \in 0..23
        PROVE  Bcd(n) \in 0..127 /\ FromBcd(Bcd(n)) = n
    BY <1>1, SMT DEF Bcd, FromBcd
  <1>2. ((h + 11) % 12) + 1 \in 1..12
    BY SMT
  <1>3. CASE ~s.bcd
    BY <1>3, SMT DEF HourRegister, HourRead
  <1>4. CASE s.bcd /\ s.h24
    <2>1. HourRegister(h, s) = Bcd(h)
      BY <1>1, <1>4, SMT DEF HourRegister
    <2>2. Bcd(h) \in 0..127 /\ FromBcd(Bcd(h)) = h
      BY <1>1
    <2>3. Bcd(h) % 128 = Bcd(h) /\ Bcd(h) \div 128 = 0
      BY <2>2, SMT
    <2> QED BY <1>4, <2>1, <2>2, <2>3, SMT DEF HourRead
  <1>5. CASE s.bcd /\ ~s.h24
    <2> DEFINE n == ((h + 11) % 12) + 1
               a == IF h >= 12 THEN 1 ELSE 0
    <2>1. HourRegister(h, s) = Bcd(n) + a * 128
      BY <1>5, SMT DEF HourRegister
    <2>2. HourRead(h, s) = n + a * 128
      BY <1>5, SMT DEF HourRead
    <2>3. a \in {0, 1} /\ n \in 0..23
      BY <1>2, SMT
    <2> HIDE DEF n, a
    <2>4. Bcd(n) \in 0..127 /\ FromBcd(Bcd(n)) = n
      BY <1>1, <2>3
    <2>5. (Bcd(n) + a * 128) % 128 = Bcd(n) /\ (Bcd(n) + a * 128) \div 128 = a
      BY <2>3, <2>4, SMT
    <2> QED BY <1>5, <2>1, <2>2, <2>4, <2>5, SMT
  <1> QED BY <1>3, <1>4, <1>5

(* Twelve o'clock of a 12-hour clock is taken for the other one. *)
HourTaken(h, s) == IF ~s.h24 /\ h % 12 = 0 THEN (h + 12) % 24 ELSE h

(* The 12-hour clock gives midnight and noon twelve hours off. *)
LEMMA HourDecoded ==
    ASSUME NEW h \in 0..23, NEW s, s.h24 \in BOOLEAN
    PROVE  LET r == HourRead(h, s)
           IN  (IF ~s.h24 /\ r >= 128 THEN ((r % 128) + 12) % 24 ELSE r) = HourTaken(h, s)
  BY SMT DEF HourRead, HourTaken

(* A time with another hour. *)
WithHour(t, h) == [f \in DOMAIN t |-> IF f = "hour" THEN h ELSE t[f]]

LEMMA WithHourFields ==
    ASSUME NEW t \in Time, NEW h \in Hour, NEW u, u = WithHour(t, h)
    PROVE  /\ u \in Time
           /\ u.hour = h
           /\ u.second = t.second /\ u.minute = t.minute
           /\ u.day = t.day /\ u.month = t.month /\ u.year = t.year
  <1>1. u = [t EXCEPT !.hour = h]
    BY SMT DEF WithHour, Time
  <1> QED BY <1>1, SMT DEF Time

(* The handler decodes what the clock showed, but for that hour. *)
LEMMA Decoded ==
    ASSUME NEW t \in ShortTime, NEW s, s.bcd \in BOOLEAN, s.h24 \in BOOLEAN
    PROVE  Decode(Registers(t, s), s) = WithHour(t, HourTaken(t.hour, s))
  <1> DEFINE R == Registers(t, s)
             B == IF ~s.bcd THEN R
                  ELSE [f \in DOMAIN R |->
                          IF f = "hour" THEN FromBcd(R.hour % 128) + (R.hour \div 128) * 128
                                        ELSE FromBcd(R[f])]
             h == t.hour
  <1>1. t \in Time /\ DOMAIN t = Field /\ h \in 0..23
    <2>1. t \in Time
      BY DEF ShortTime
    <2> QED BY <2>1, Fields, SMT DEF Time, Hour
  <1>2. R = [f \in Field |-> IF f = "hour" THEN HourRegister(h, s)
                             ELSE IF s.bcd THEN Bcd(t[f]) ELSE t[f]]
    BY <1>1 DEF Registers
  <1> HIDE DEF R
  <1>3. DOMAIN R = Field /\ R.hour = HourRegister(h, s)
    BY <1>2, SMT DEF Field
  <1>4. B = WithHour(t, HourRead(h, s))
    <2>1. ASSUME NEW f \in Field
          PROVE  (IF ~s.bcd THEN R[f]
                  ELSE IF f = "hour" THEN FromBcd(R.hour % 128) + (R.hour \div 128) * 128
                                     ELSE FromBcd(R[f]))
                     = IF f = "hour" THEN HourRead(h, s) ELSE t[f]
      <3>1. CASE f = "hour"
        <4>1. (IF ~s.bcd THEN HourRegister(h, s)
               ELSE FromBcd(HourRegister(h, s) % 128) + (HourRegister(h, s) \div 128) * 128)
                  = HourRead(h, s)
          BY <1>1, HourRoundTrip
        <4> QED BY <1>3, <3>1, <4>1, SMT
      <3>2. CASE f # "hour"
        <4>1. R[f] = IF s.bcd THEN Bcd(t[f]) ELSE t[f]
          BY <1>2, <3>2
        <4>2. FromBcd(Bcd(t[f])) = t[f]
          <5>1. t[f] \in 0..99
            BY TwoDigits
          <5> QED BY <5>1, BcdRoundTrip
        <4> QED BY <3>2, <4>1, <4>2, SMT
      <3> QED BY <3>1, <3>2
    <2>2. WithHour(t, HourRead(h, s)) = [f \in Field |-> IF f = "hour" THEN HourRead(h, s) ELSE t[f]]
      BY <1>1 DEF WithHour
    <2>3. CASE ~s.bcd
      <3>1. B = R
        BY <2>3
      <3>2. R = [f \in Field |-> R[f]]
        BY <1>2
      <3> QED BY <2>1, <2>2, <2>3, <3>1, <3>2
    <2>4. CASE s.bcd
      <3>1. B = [f \in Field |-> IF f = "hour" THEN FromBcd(R.hour % 128) + (R.hour \div 128) * 128
                                 ELSE FromBcd(R[f])]
        BY <1>3, <2>4
      <3> QED BY <2>1, <2>2, <2>4, <3>1
    <2> QED BY <2>3, <2>4
  <1>5. Decode(R, s) = IF ~s.h24 /\ B.hour >= 128 THEN [B EXCEPT !.hour = ((@ % 128) + 12) % 24] ELSE B
    BY SMT DEF Decode
  <1> HIDE DEF B
  <1>6. B.hour = HourRead(h, s) /\ DOMAIN B = Field
    BY <1>1, <1>4, SMT DEF WithHour, Field
  <1>7. (IF ~s.h24 /\ B.hour >= 128 THEN ((B.hour % 128) + 12) % 24 ELSE B.hour) = HourTaken(h, s)
    BY <1>1, <1>6, HourDecoded
  <1>8. CASE ~s.h24 /\ B.hour >= 128
    <2>1. Decode(R, s) = [f \in Field |-> IF f = "hour" THEN HourTaken(h, s) ELSE B[f]]
      BY <1>5, <1>6, <1>7, <1>8, SMT DEF Field
    <2>2. \A f \in Field : f # "hour" => B[f] = t[f]
      BY <1>1, <1>4 DEF WithHour
    <2> QED BY <1>1, <2>1, <2>2 DEF WithHour, R, h
  <1>9. CASE ~(~s.h24 /\ B.hour >= 128)
    <2>1. Decode(R, s) = B /\ HourRead(h, s) = HourTaken(h, s)
      BY <1>5, <1>6, <1>7, <1>9, SMT
    <2> QED BY <1>4, <2>1 DEF R, h
  <1> QED BY <1>8, <1>9

-----------------------------------------------------------------------------
(* The invariant.                                                          *)

Readable(s) == s.bcd \in BOOLEAN /\ s.h24 \in BOOLEAN

Wrong(s) == IF ~s.h24 /\ s.time.hour % 12 = 0 THEN 12 * 3600 ELSE 0

(* The current time t, when a time was taken n seconds ago. *)
Follows(t, s, n) ==
    LET now == Later(s.time, n)
    IN  /\ t \in Time
        /\ SecondOfDay(t) = (SecondOfDay(now) + Wrong(s)) % 86400
        /\ Wrong(s) = 0 /\ now.day <= 27 /\ now.month < 12 => t = now

(* What the boot and the timer leave of the clock. *)
ClockInv ==
    /\ second_elapsed \in Nat
    /\ handled \in BOOLEAN
    /\ phase = "enable" => rtc = "off"
    /\ handled => rtc = "masked"
    /\ phase = "up" => handled
    /\ phase # "up" => second_elapsed = 0
    /\ handled /\ ~began.torn =>
           /\ began.time \in ShortTime /\ Readable(began)
           /\ startup_time = WithHour(began.time, HourTaken(began.time.hour, began))
    /\ phase = "up" /\ ~began.torn => Follows(current_time, began, second_elapsed)

(* The time that is taken at boot. *)
LEMMA TakenTime ==
    ASSUME NEW s, s.time \in ShortTime, Readable(s)
    PROVE  Follows(WithHour(s.time, HourTaken(s.time.hour, s)), s, 0)
  <1> DEFINE t == s.time
             h == t.hour
             k == HourTaken(h, s)
             u == WithHour(t, k)
             v == Later(t, 0)
             r == SecondOfDay(t)
  <1>1. t \in Time /\ h \in 0..23
    <2>1. t \in Time
      BY DEF ShortTime
    <2> QED BY <2>1, SMT DEF Time, Hour
  <1>2. k \in 0..23 /\ (Wrong(s) = 0 => k = h)
        /\ (Wrong(s) # 0 => Wrong(s) = 43200 /\ ((h = 0 /\ k = 12) \/ (h = 12 /\ k = 0)))
    <2> HIDE DEF h
    <2>1. Wrong(s) = IF ~s.h24 /\ h % 12 = 0 THEN 12 * 3600 ELSE 0
      BY SMT DEF Wrong, h
    <2>2. s.h24 \in BOOLEAN
      BY DEF Readable
    <2>3. h % 12 = 0 => h = 0 \/ h = 12
      BY <1>1, SMT
    <2>4. k = IF ~s.h24 /\ h % 12 = 0 THEN (h + 12) % 24 ELSE h
      BY SMT DEF HourTaken
    <2> HIDE DEF k
    <2>5. CASE ~s.h24 /\ h % 12 = 0
      <3>1. k = (h + 12) % 24
        BY <2>4, <2>5
      <3>2. Wrong(s) = 43200
        BY <2>1, <2>5, SMT
      <3>3. h = 0 => k = 12
        BY <3>1, SMT
      <3>4. h = 12 => k = 0
        BY <3>1, SMT
      <3>5. h = 0 \/ h = 12
        BY <2>3, <2>5
      <3>6. Wrong(s) # 0
        BY <3>2, SMT
      <3>7. k \in 0..23
        BY <3>3, <3>4, <3>5, SMT
      <3> QED BY <3>2, <3>3, <3>4, <3>5, <3>6, <3>7
    <2>6. CASE ~(~s.h24 /\ h % 12 = 0)
      BY <1>1, <2>1, <2>4, <2>6, SMT
    <2> QED BY <2>5, <2>6
  <1> HIDE DEF k
  <1>3. /\ u \in Time /\ u.hour = k
        /\ u.second = t.second /\ u.minute = t.minute
        /\ u.day = t.day /\ u.month = t.month /\ u.year = t.year
    <2>1. k \in Hour
      BY <1>2 DEF Hour
    <2> QED BY <1>1, <2>1, WithHourFields
  <1>4. r = h * 3600 + t.minute * 60 + t.second /\ r \in Nat
    BY <1>1, SecondOfDayType
  <1>5. SecondOfDay(u) = k * 3600 + t.minute * 60 + t.second
    <2>1. SecondOfDay(u) = u.hour * 3600 + u.minute * 60 + u.second
      BY <1>3, SecondOfDayType
    <2> HIDE DEF u
    <2> QED BY <1>3, <2>1, SMT
  <1>6. v = t
    <2>1. IsTime(v, r, t.day, t.month, t.year)
      <3>1. IsTime(v, r + 0, t.day, t.month, t.year)
        BY <1>1, LaterFields, SMT
      <3>2. r + 0 = r
        BY <1>4, SMT
      <3> HIDE DEF v, r
      <3> QED BY <3>1, <3>2
    <2>2. Digits(r, 0, h, t.minute, t.second)
      <3>1. t.minute \in 0..59 /\ t.second \in 0..59
        BY <1>1, SMT DEF Time, Sixtieth
      <3> HIDE DEF h, r, t
      <3> QED BY <1>1, <1>4, <3>1, SMT DEF Digits
    <2>3. /\ r % 60 = t.second
          /\ (r \div 60) % 60 = t.minute
          /\ (r \div 3600) % 24 = h
          /\ r \div 86400 = 0
      BY <2>2, DigitsAre, SMT
    <2>4. t.day \in Nat
      BY <1>1, SMT DEF Time
    <2> HIDE DEF r, v
    <2>5. /\ v \in Time /\ v.second = t.second /\ v.minute = t.minute /\ v.hour = t.hour
          /\ v.day = t.day /\ v.month = t.month /\ v.year = t.year
      BY <1>4, <2>1, <2>3, <2>4, SMT DEF IsTime
    <2> QED BY <1>1, <2>5, SameTime
  <1>7. SecondOfDay(u) = (r + Wrong(s)) % 86400
    <2> DEFINE m == t.minute
               x == t.second
    <2>1. m \in 0..59 /\ x \in 0..59
      BY <1>1, SMT DEF Time, Sixtieth
    <2>2. r = h * 3600 + m * 60 + x /\ SecondOfDay(u) = k * 3600 + m * 60 + x
      BY <1>4, <1>5
    <2> HIDE DEF u, r, h, m, x
    <2>3. CASE Wrong(s) = 0
      <3>1. Digits(r + Wrong(s), 0, h, m, x)
        BY <1>1, <2>1, <2>2, <2>3, SMT DEF Digits
      <3>2. (r + Wrong(s)) % 86400 = h * 3600 + m * 60 + x
        BY <3>1, DigitsAre, SMT
      <3> QED BY <1>2, <2>2, <2>3, <3>2, SMT
    <2>4. CASE Wrong(s) # 0 /\ h = 0 /\ k = 12
      <3>1. Digits(r + Wrong(s), 0, 12, m, x)
        BY <1>2, <2>1, <2>2, <2>4, SMT DEF Digits
      <3>2. (r + Wrong(s)) % 86400 = 12 * 3600 + m * 60 + x
        BY <3>1, DigitsAre, SMT
      <3> QED BY <2>2, <2>4, <3>2, SMT
    <2>5. CASE Wrong(s) # 0 /\ h = 12 /\ k = 0
      <3>1. Digits(r + Wrong(s), 1, 0, m, x)
        BY <1>2, <2>1, <2>2, <2>5, SMT DEF Digits
      <3>2. (r + Wrong(s)) % 86400 = 0 * 3600 + m * 60 + x
        BY <3>1, DigitsAre, SMT
      <3> QED BY <2>2, <2>5, <3>2, SMT
    <2> QED BY <1>2, <2>3, <2>4, <2>5
  <1>8. Wrong(s) = 0 => u = t
    <2>1. ASSUME Wrong(s) = 0
          PROVE  u.hour = t.hour
      BY <1>2, <1>3, <2>1
    <2> HIDE DEF u
    <2> QED BY <1>1, <1>3, <2>1, SameTime
  <1> HIDE DEF u
  <1>9. Follows(u, s, 0)
    BY <1>3, <1>6, <1>7, <1>8 DEF Follows
  <1> QED BY <1>9 DEF u, k

(* A second passes. *)
LEMMA FollowsOn ==
    ASSUME NEW t, NEW s, NEW n \in Nat, s.time \in ShortTime, Follows(t, s, n)
    PROVE  Follows(Advance(t), s, n + 1)
  <1> DEFINE now == Later(s.time, n)
             next == Later(s.time, n + 1)
             w == Wrong(s)
             p == SecondOfDay(now)
  <1>1. s.time \in Time /\ s.time.day \in Nat \ {0} /\ s.time.month \in 1..12
    BY SMT DEF ShortTime
  <1>2. /\ t \in Time
        /\ SecondOfDay(t) = (p + w) % 86400
        /\ w = 0 /\ now.day <= 27 /\ now.month < 12 => t = now
    BY DEF Follows
  <1>3. now \in Time /\ now.day \in Nat \ {0} /\ now.month = s.time.month
    <2>1. IsTime(now, SecondOfDay(s.time) + n, s.time.day, s.time.month, s.time.year)
      BY <1>1, LaterFields
    <2>2. (SecondOfDay(s.time) + n) \div 86400 \in Nat
      <3>1. SecondOfDay(s.time) \in Nat
        BY <1>1, SecondOfDayType
      <3> QED BY <3>1, SMT
    <2> HIDE DEF now
    <2> QED BY <1>1, <2>1, <2>2, SMT DEF IsTime
  <1>4. next = Later(now, 1)
    BY <1>1, LaterAgain
  <1>5. SecondOfDay(next) = (p + 1) % 86400
    BY <1>3, <1>4, LaterSecond
  <1>6. Advance(t) \in Time /\ SecondOfDay(Advance(t)) = (SecondOfDay(t) + 1) % 86400
    BY <1>2, AdvanceSecond
  <1>7. p \in Nat /\ w \in Nat
    <2>1. p \in Nat
      BY <1>3, SecondOfDayType
    <2> QED BY <2>1, SMT DEF Wrong
  <1>8. next.day >= now.day /\ next.day \in Nat /\ next.month = now.month
    <2>1. IsTime(next, p + 1, now.day, now.month, now.year)
      BY <1>3, <1>4, LaterFields
    <2>2. (p + 1) \div 86400 \in Nat
      BY <1>7, SMT
    <2> HIDE DEF next, now, p
    <2> QED BY <1>3, <2>1, <2>2, SMT DEF IsTime
  <1> HIDE DEF now, next, w, p
  <1>9. (((p + w) % 86400) + 1) % 86400 = (((p + 1) % 86400) + w) % 86400
    BY <1>7, SMT
  <1>10. ASSUME w = 0, next.day <= 27, next.month < 12
         PROVE  Advance(t) = next
    <2>1. t = now
      BY <1>2, <1>3, <1>8, <1>10, SMT
    <2>2. now.month \in 1..11
      BY <1>1, <1>3, <1>8, <1>10, SMT
    <2>3. Later(now, 1).day <= 27
      BY <1>4, <1>10
    <2>4. Advance(now) = Later(now, 1)
      BY <1>3, <2>2, <2>3, AdvanceIsLater
    <2> QED BY <1>4, <2>1, <2>4
  <1>11. SecondOfDay(Advance(t)) = (SecondOfDay(next) + w) % 86400
    BY <1>2, <1>5, <1>6, <1>9, SMT
  <1> QED BY <1>6, <1>10, <1>11 DEF Follows, next, w

(* What the handler read in one second is a time of the clock. *)
LEMMA NotTorn ==
    ASSUME NEW s \in Startup, NEW n \in 0..Len(ReadOrder), HandleRtcInterrupt(s, n),
           ~began'.torn
    PROVE  /\ began'.time \in ShortTime /\ Readable(began')
           /\ startup_time' = WithHour(began'.time, HourTaken(began'.time.hour, began'))
  <1> DEFINE t == s.time
             next == Later(t, 1)
             before == Registers(t, s)
             after == Registers(next, s)
             shown == [f \in DOMAIN before |->
                          IF \E i \in 1..n : ReadOrder[i] = f THEN before[f] ELSE after[f]]
             taken == IF n = 0 THEN next ELSE t
  <1>1. s.time \in Date /\ s.bcd \in BOOLEAN /\ s.h24 \in BOOLEAN
    BY StartupAssumption, SMT
  <1>2. t \in ShortTime /\ t \in Time /\ t.day \in 1..31
    <2> /\ t.second \in Sixtieth /\ t.minute \in Sixtieth /\ t.hour \in Hour
        /\ t.day \in 1..31 /\ t.month \in 1..12 /\ t.year \in 0..99
      BY <1>1, SMT DEF Date, Hour, Sixtieth
    <2>1. t = [second |-> t.second, minute |-> t.minute, hour |-> t.hour,
               day |-> t.day, month |-> t.month, year |-> t.year]
      BY <1>1, SMT DEF Date
    <2> HIDE DEF t
    <2>2. t.day \in Nat /\ t.month \in Nat /\ t.year \in Nat /\ t.day \in 1..32
      <3>1. /\ \A d \in 1..31 : d \in Nat /\ d \in 1..32
            /\ \A d \in 1..12 : d \in Nat
            /\ \A d \in 0..99 : d \in Nat
        BY SMT
      <3> QED BY <3>1, Zenon
    <2>3. t \in Time
      BY <2>1, <2>2, SMT DEF Time
    <2> QED BY <2>2, <2>3 DEF ShortTime
  <1>3. /\ startup_time' = Decode(shown, s)
        /\ began' = [time |-> taken, bcd |-> s.bcd, h24 |-> s.h24, torn |-> shown \notin {before, after}]
    BY SMT DEF HandleRtcInterrupt
  <1>4. next \in Time /\ next \in ShortTime /\ next.second = (SecondOfDay(t) + 1) % 60
    <2> DEFINE r == SecondOfDay(t) + 1
    <2>1. IsTime(next, r, t.day, t.month, t.year)
      BY <1>2, LaterFields
    <2>2. r \in Nat /\ r <= 86400
      <3>1. SecondOfDay(t) \in Nat /\ SecondOfDay(t) < 86400
        BY <1>2, SecondOfDayType
      <3> QED BY <3>1, SMT
    <2> HIDE DEF next, r, t
    <2>3. r \div 86400 \in {0, 1}
      BY <2>2, SMT
    <2>4. t.month \in 1..12 /\ t.year \in 0..99
      BY <1>2, SMT DEF ShortTime
    <2>5. next.day \in 1..32
      <3>1. next.day = t.day + r \div 86400
        BY <2>1, SMT DEF IsTime
      <3>2. PICK k \in {0, 1} : r \div 86400 = k
        BY <2>3
      <3>3. PICK d \in 1..31 : t.day = d
        BY <1>2, Zenon DEF t
      <3>4. next.day = d + k
        BY <3>1, <3>2, <3>3
      <3> QED BY <3>4, SMT
    <2>6. next \in Time /\ next.month = t.month /\ next.year = t.year /\ next.second = r % 60
      BY <2>1, SMT DEF IsTime
    <2>7. next \in ShortTime
      BY <2>4, <2>5, <2>6, Zenon DEF ShortTime
    <2> QED BY <2>6, <2>7 DEF r
  <1>5. DOMAIN t = Field /\ DOMAIN next = Field
    BY <1>2, <1>4, Fields
  <1>6. DOMAIN before = Field /\ DOMAIN after = Field
    BY <1>5 DEF Registers
  <1>7. CASE n = 0
    <2>1. \A f \in Field : shown[f] = after[f]
      <3> HIDE DEF before, after
      <3> QED BY <1>6, <1>7
    <2>2. after = [f \in Field |-> after[f]]
      BY <1>5 DEF Registers
    <2>3. shown = after
      <3> HIDE DEF before, after
      <3> QED BY <1>6, <2>1, <2>2
    <2>4. Decode(after, s) = WithHour(next, HourTaken(next.hour, s))
      BY <1>1, <1>4, Decoded
    <2> QED BY <1>1, <1>3, <1>4, <1>7, <2>3, <2>4, SMT DEF Readable, HourTaken
  <1>8. CASE n # 0
    <2>1. shown["second"] = before["second"]
      <3>1. 1 \in 1..n /\ ReadOrder[1] = "second"
        BY <1>8, SMT DEF ReadOrder
      <3> HIDE DEF before, after
      <3> QED BY <1>6, <3>1 DEF Field
    <2>2. before["second"] # after["second"]
      <3> DEFINE x == t.second
                 y == next.second
      <3>1. x \in 0..59 /\ y \in 0..59
        BY <1>2, <1>4, SMT DEF Time, Sixtieth
      <3>2. x # y
        <4>1. SecondOfDay(t) = t.hour * 3600 + t.minute * 60 + t.second
          BY <1>2, SecondOfDayType
        <4>2. t.hour \in 0..23 /\ t.minute \in 0..59
          BY <1>2, SMT DEF Time, Hour, Sixtieth
        <4> DEFINE h == t.hour
                   m == t.minute
                   q == SecondOfDay(t)
        <4>3. q = h * 3600 + m * 60 + x /\ h \in 0..23 /\ m \in 0..59 /\ y = (q + 1) % 60
          BY <1>4, <4>1, <4>2
        <4> HIDE DEF h, m, q, x, y
        <4>4. q + 1 = (h * 60 + m) * 60 + (x + 1)
          BY <3>1, <4>3, SMT
        <4>5. (q + 1) % 60 = (x + 1) % 60
          BY <3>1, <4>3, <4>4, SMT
        <4> QED BY <3>1, <4>3, <4>5, SMT
      <3>3. before["second"] = (IF s.bcd THEN Bcd(x) ELSE x)
            /\ after["second"] = (IF s.bcd THEN Bcd(y) ELSE y)
        BY <1>5, SMT DEF Registers, Field
      <3> HIDE DEF before, after, x, y
      <3>4. FromBcd(Bcd(x)) = x /\ FromBcd(Bcd(y)) = y
        BY <3>1, SMT DEF FromBcd, Bcd
      <3> QED BY <3>2, <3>3, <3>4
    <2>3. shown \in {before, after}
      <3> HIDE DEF taken, shown, before, after
      <3>1. began'.torn = (shown \notin {before, after})
        BY <1>3
      <3> QED BY <3>1, Zenon
    <2>4. shown = before
      <3> HIDE DEF shown, before, after
      <3> QED BY <2>1, <2>2, <2>3
    <2>5. Decode(before, s) = WithHour(t, HourTaken(t.hour, s))
      BY <1>1, <1>2, Decoded
    <2> QED BY <1>1, <1>2, <1>3, <1>8, <2>4, <2>5, SMT DEF Readable, HourTaken
  <1> QED BY <1>7, <1>8

(* The machine starts without a time. *)
LEMMA InitClock == Init => ClockInv
  <1>1. Init => phase = "enable" /\ rtc = "off" /\ handled = FALSE /\ second_elapsed = 0
    BY DEF Init, ClockInit
  <1>2. Init => second_elapsed \in Nat
    BY <1>1, SMT
  <1> QED BY <1>1, <1>2, Zenon DEF ClockInv

(* Every step keeps the clock right: the boot takes the time, a tick moves it on. *)
LEMMA NextClock ==
    ASSUME ClockInv, [Next]_vars
    PROVE  ClockInv'
  <1> USE DEF ClockInv
  <1>1. CASE UNCHANGED clockVars
    BY <1>1 DEF clockVars, Follows, Wrong, Readable
  <1>2. CASE KeyAtBoot
    <2>1. /\ phase \notin {"enable", "up"} /\ phase' \in {phase, "test"}
          /\ UNCHANGED <<rtc, handled, startup_time, current_time, second_elapsed, began>>
      BY <1>2, SMT DEF KeyAtBoot, KeyboardInterrupt, WakeUp
    <2> QED BY <2>1 DEF Readable
  <1>3. CASE EnableRtcInterrupt
    BY <1>3 DEF EnableRtcInterrupt, Readable
  <1>4. CASE TestHandled
    <2>1. CASE handled
      <3>1. /\ phase' = "up" /\ current_time' = startup_time /\ second_elapsed = 0
            /\ UNCHANGED <<rtc, handled, startup_time, second_elapsed, began>>
        BY <1>4, <2>1 DEF TestHandled
      <3>2. ~began.torn => Follows(startup_time, began, 0)
        BY <2>1, TakenTime
      <3> QED BY <2>1, <3>1, <3>2 DEF Follows, Wrong, Readable
    <2>2. CASE ~handled
      BY <1>4, <2>2 DEF TestHandled
    <2> QED BY <2>1, <2>2
  <1>5. CASE Hlt
    BY <1>5 DEF Hlt, Readable
  <1>6. ASSUME NEW s \in Startup, NEW n \in 0..Len(ReadOrder), HandleRtcInterrupt(s, n)
        PROVE  ClockInv'
    <2>1. /\ rtc = "enabled" /\ rtc' = "masked" /\ handled' = TRUE
          /\ phase' \in {phase, "test"} /\ second_elapsed' = second_elapsed
      BY <1>6, SMT DEF HandleRtcInterrupt, WakeUp
    <2>2. ~handled /\ phase # "up" /\ phase # "enable"
      BY <2>1
    <2>3. ~began'.torn =>
              /\ began'.time \in ShortTime /\ Readable(began')
              /\ startup_time' = WithHour(began'.time, HourTaken(began'.time.hour, began'))
      BY <1>6, NotTorn
    <2> QED BY <2>1, <2>2, <2>3 DEF Readable, HourTaken
  <1>7. CASE TimerInterrupt
    <2>1. /\ phase = "up" /\ handled
          /\ UNCHANGED <<phase, rtc, handled, startup_time, began>>
      BY <1>7 DEF TimerInterrupt
    <2>2. CASE UNCHANGED <<second_elapsed, current_time>>
      BY <2>1, <2>2 DEF Follows, Wrong, Readable
    <2>3. CASE second_elapsed' = second_elapsed + 1 /\ current_time' = Advance(current_time)
      <3>1. ~began.torn => Follows(Advance(current_time), began, second_elapsed + 1)
        BY <2>1, FollowsOn
      <3>2. second_elapsed + 1 \in Nat
        OBVIOUS
      <3> QED BY <2>1, <2>3, <3>1, <3>2 DEF Follows, Wrong, Readable
    <2> QED BY <1>7, <2>2, <2>3 DEF TimerInterrupt
  <1>8. CASE Next
    BY <1>1, <1>2, <1>3, <1>4, <1>5, <1>6, <1>7, <1>8
       DEF Next, BootStep, Boot, RtcInterrupt, TimerStep, ConsoleStep
  <1> QED BY <1>1, <1>8 DEF vars, clockVars

(***************************************************************************)
(* The calendar of time.c is right after any number of seconds: the time   *)
(* of day always, but for the twelve hours that a 12-hour clock may cost,  *)
(* and the date until the 27th.                                            *)
(***************************************************************************)
THEOREM ClockIsRight == Spec => []ClockFollowsElapsed
  <1>1. ClockInv => ClockFollowsElapsed
    BY SMT DEF ClockInv, Follows, Wrong, ClockFollowsElapsed
  <1> QED BY <1>1, InitClock, NextClock, PTL DEF Spec

-----------------------------------------------------------------------------
(* The ring.                                                               *)

S == STDIN_BUFFER_SIZE

Index == 0..(S - 1)

(* An erase may leave the ring. *)
LastIndex == -1..(S - 1)

(* % for numbers that are at most a turn outside the ring. *)
LEMMA Turns ==
    ASSUME NEW x \in Int
    PROVE  /\ 0 <= x /\ x < S => Ring(x) = x
           /\ S <= x /\ x < 2 * S => Ring(x) = x - S
           /\ -S <= x /\ x < 0 => Ring(x) = x + S
           /\ Ring(x) \in Index
  <1>1. S \in Nat \ {0, 1} /\ Ring(x) = x % S
    BY ConsoleAssumption DEF S, Ring
  <1>2. 0 <= x /\ x < S => x % S = x
    BY <1>1, SMT
  <1>3. S <= x /\ x < 2 * S => x % S = x - S
    BY <1>1, SMT
  <1>4. -S <= x /\ x < 0 => x % S = x + S
    BY <1>1, SMT
  <1>5. x % S \in 0..(S - 1)
    BY <1>1, SMT
  <1> QED BY <1>1, <1>2, <1>3, <1>4, <1>5 DEF Index

Char == Letter \cup {"null"}

PendingOf(buffer, current, last) ==
    [i \in 1..Ring(last - current) |-> buffer[Ring(current + i - 1)]]

(* The characters that wait in a ring. *)
LEMMA WaitingChars ==
    ASSUME NEW buffer \in [Index -> Char],
           NEW current \in Index, NEW last \in LastIndex,
           NEW p, p = PendingOf(buffer, current, last),
           NEW n, n = Ring(last - current)
    PROVE  /\ p \in Seq(Char)
           /\ Len(p) = n
           /\ n \in 0..(S - 1)
           /\ \A i \in 1..n : /\ p[i] = buffer[Ring(current + i - 1)]
                              /\ Ring(current + i - 1) \in Index
  <1>1. S \in Nat \ {0, 1}
    BY ConsoleAssumption DEF S
  <1>2. n \in Index /\ n \in 0..(S - 1)
    <2>1. last - current \in Int
      BY <1>1 DEF Index, LastIndex
    <2> QED BY <2>1, Turns DEF Index
  <1>3. p = [i \in 1..n |-> buffer[Ring(current + i - 1)]]
    BY DEF PendingOf
  <1>4. ASSUME NEW i \in 1..n
        PROVE  Ring(current + i - 1) \in Index
    <2> DEFINE x == current + i - 1
    <2>1. x \in Int
      BY <1>1, <1>2 DEF Index
    <2> HIDE DEF x
    <2>2. Ring(x) \in Index
      BY <2>1, Turns
    <2> QED BY <2>2 DEF x
  <1>5. p \in [1..n -> Char]
    BY <1>3, <1>4
  <1>6. p \in Seq(Char) /\ Len(p) = n
    BY <1>2, <1>5
  <1> QED BY <1>2, <1>3, <1>4, <1>6

(* How many wait, without a modulus. *)
LEMMA WaitingCount ==
    ASSUME NEW current \in Index, NEW last \in LastIndex
    PROVE  Ring(last - current) = IF current <= last THEN last - current ELSE last - current + S
  <1>1. S \in Nat \ {0, 1}
    BY ConsoleAssumption DEF S
  <1> DEFINE x == last - current
  <1>2. /\ x \in Int /\ -S <= x /\ x < S
        /\ current <= last <=> 0 <= x
    BY <1>1 DEF Index, LastIndex
  <1> HIDE DEF x
  <1>3. Ring(x) = IF 0 <= x THEN x ELSE x + S
    BY <1>1, <1>2, Turns
  <1> QED BY <1>2, <1>3 DEF x

(* Where the i-th of them is. *)
LEMMA WaitingPlace ==
    ASSUME NEW current \in Index, NEW i \in 1..S
    PROVE  Ring(current + i - 1) = IF current + i - 1 < S THEN current + i - 1
                                                           ELSE (current + i - 1) - S
  <1>1. S \in Nat \ {0, 1}
    BY ConsoleAssumption DEF S
  <1> DEFINE x == current + i - 1
  <1>2. x \in Int /\ 0 <= x /\ x < 2 * S
    BY <1>1 DEF Index
  <1>3. Ring(x) = IF x < S THEN x ELSE x - S
    <2> HIDE DEF x
    <2> QED BY <1>1, <1>2, Turns
  <1> QED BY <1>3

-----------------------------------------------------------------------------
(* The line discipline.                                                    *)

LEMMA SmallerOfTwo ==
    ASSUME NEW a \in Int, NEW b \in Int
    PROVE  Min({a, b}) = IF a <= b THEN a ELSE b
  <1>1. ASSUME NEW m \in {a, b}, \A y \in {a, b} : m <= y
        PROVE  m = IF a <= b THEN a ELSE b
    BY <1>1
  <1>2. \E m \in {a, b} : \A y \in {a, b} : m <= y
    OBVIOUS
  <1> QED BY <1>1, <1>2 DEF Min

LEMMA LargerOfTwo ==
    ASSUME NEW a \in Int, NEW b \in Int
    PROVE  Discipline!Max({a, b}) = IF a <= b THEN b ELSE a
  <1>1. ASSUME NEW m \in {a, b}, \A y \in {a, b} : m >= y
        PROVE  m = IF a <= b THEN b ELSE a
    BY <1>1
  <1>2. \E m \in {a, b} : \A y \in {a, b} : m >= y
    OBVIOUS
  <1> QED BY <1>1, <1>2 DEF Discipline!Max

LEMMA GreaterOfTwo ==
    ASSUME NEW a \in Int, NEW b \in Int
    PROVE  Max({a, b}) = IF a <= b THEN b ELSE a
  <1>1. ASSUME NEW m \in {a, b}, \A y \in {a, b} : m >= y
        PROVE  m = IF a <= b THEN b ELSE a
    BY <1>1
  <1>2. \E m \in {a, b} : \A y \in {a, b} : m >= y
    OBVIOUS
  <1> QED BY <1>1, <1>2 DEF Max

(* A line that fits is kept whole; of one too long the oldest goes. *)
LEMMA LastOfShort ==
    ASSUME NEW s \in Seq(Char), NEW n \in Nat, Len(s) <= n
    PROVE  Discipline!LastOf(s, n) = s
  <1>1. Len(s) \in Nat
    OBVIOUS
  <1>2. Len(s) - n + 1 \in Int /\ Len(s) - n + 1 <= 1
    BY <1>1
  <1>3. Discipline!Max({1, Len(s) - n + 1}) = 1
    <2> DEFINE b == Len(s) - n + 1
    <2> HIDE DEF b
    <2>1. b \in Int /\ b <= 1
      BY <1>2 DEF b
    <2>2. Discipline!Max({1, b}) = 1
      BY <2>1, LargerOfTwo
    <2> QED BY <2>2 DEF b
  <1> DEFINE m == Discipline!Max({1, Len(s) - n + 1})
  <1>4. Discipline!LastOf(s, n) = SubSeq(s, m, Len(s))
    BY DEF Discipline!LastOf
  <1>5. m = 1
    BY <1>3
  <1> HIDE DEF m
  <1> QED BY <1>4, <1>5, SubSeqFull

LEMMA LastOfLong ==
    ASSUME NEW s \in Seq(Char), NEW n \in Nat, Len(s) = n + 1
    PROVE  Discipline!LastOf(s, n) = SubSeq(s, 2, Len(s))
  <1>1. Discipline!Max({1, Len(s) - n + 1}) = 2
    BY LargerOfTwo
  <1> QED BY <1>1 DEF Discipline!LastOf

(* The index after an index. *)
LEMMA NextIndex ==
    ASSUME NEW i \in Index
    PROVE  Ring(i + 1) = IF i + 1 < S THEN i + 1 ELSE 0
  <1>1. S \in Nat \ {0, 1}
    BY ConsoleAssumption DEF S
  <1> DEFINE x == i + 1
  <1>2. x \in Int /\ 0 <= x /\ x <= S
    BY <1>1 DEF Index
  <1> HIDE DEF x
  <1>3. Ring(x) = IF x < S THEN x ELSE 0
    BY <1>1, <1>2, Turns
  <1> QED BY <1>3 DEF x

(* A key's character joins those that wait, or the oldest makes room. *)
Stores(buffer, current, last, c, buffer2, first, next) ==
    /\ buffer2 = [buffer EXCEPT ![last] = c]
    /\ next = Ring(last + 1)
    /\ first = IF next = current THEN Ring(next + 1) ELSE current

(* fill_stdin_buffer with a printable character: Type of the discipline. *)
LEMMA Stored ==
    ASSUME NEW buffer \in [Index -> Char], NEW c \in Char,
           NEW current \in Index, NEW last \in Index,
           NEW buffer2, NEW first, NEW next,
           Stores(buffer, current, last, c, buffer2, first, next)
    PROVE  /\ buffer2 \in [Index -> Char] /\ first \in Index /\ next \in Index
           /\ Ring(next - first) = IF Ring(last - current) = S - 1 THEN S - 1
                                   ELSE Ring(last - current) + 1
           /\ PendingOf(buffer2, first, next)
                  = Discipline!LastOf(Append(PendingOf(buffer, current, last), c), S - 1)
  <1> DEFINE p == PendingOf(buffer, current, last)
             q == PendingOf(buffer2, first, next)
             n == Ring(last - current)
             k == Ring(next - first)
             t == Append(p, c)
  <1>1. S \in Nat \ {0, 1}
    BY ConsoleAssumption DEF S
  <1>2. next = IF last + 1 < S THEN last + 1 ELSE 0
    BY <1>1, NextIndex DEF Stores
  <1>3. next \in Index
    BY <1>1, <1>2 DEF Index
  <1>4. Ring(next + 1) = IF next + 1 < S THEN next + 1 ELSE 0
    BY <1>1, <1>3, NextIndex
  <1>5. first = (IF next = current THEN Ring(next + 1) ELSE current) /\ first \in Index
    BY <1>1, <1>3, <1>4 DEF Index, Stores
  <1>6. buffer2 \in [Index -> Char]
    BY DEF Stores
  <1>7. /\ p \in Seq(Char) /\ Len(p) = n /\ n \in 0..(S - 1)
        /\ \A i \in 1..n : p[i] = buffer[Ring(current + i - 1)]
    <2> HIDE DEF p, n
    <2>1. last \in LastIndex
      BY <1>1 DEF Index, LastIndex
    <2> QED BY <2>1, WaitingChars DEF p, n
  <1>8. /\ q \in Seq(Char) /\ Len(q) = k
        /\ \A i \in 1..k : q[i] = buffer2[Ring(first + i - 1)]
    <2> HIDE DEF q, k
    <2>1. last \in LastIndex /\ next \in LastIndex
      BY <1>1, <1>3 DEF Index, LastIndex
    <2>2. q = PendingOf(buffer2, first, next)
      BY DEF q
    <2>3. k = Ring(next - first)
      BY DEF k
    <2> QED BY <1>5, <1>6, <2>1, <2>2, <2>3, WaitingChars
  <1> HIDE DEF p, q
  <1>9. /\ t \in Seq(Char) /\ Len(t) = n + 1
        /\ \A i \in 1..n : t[i] = p[i]
        /\ t[n + 1] = c
    BY <1>7, AppendProperties
  <1> HIDE DEF t
  <1>10. n = IF current <= last THEN last - current ELSE last - current + S
    <2>1. last \in LastIndex
      BY <1>1 DEF Index, LastIndex
    <2> QED BY <2>1, WaitingCount
  <1>11. k = IF first <= next THEN next - first ELSE next - first + S
    <2>1. next \in LastIndex
      BY <1>1, <1>3 DEF Index, LastIndex
    <2> QED BY <1>5, <2>1, WaitingCount
  <1> HIDE DEF n, k
  <1>12. \A x \in Index : buffer2[x] = IF x = last THEN c ELSE buffer[x]
    BY DEF Stores
  <1>13. CASE next # current
    <2>1. first = current /\ n < S - 1 /\ k = n + 1
      BY <1>1, <1>2, <1>3, <1>5, <1>10, <1>11, <1>13 DEF Index
    <2>2. ASSUME NEW i \in 1..(n + 1)
          PROVE  q[i] = t[i]
      <3>1. i \in 1..S /\ i \in Int
        BY <1>1, <1>7, <2>1
      <3> DEFINE x == Ring(current + i - 1)
      <3>2. x = IF current + i - 1 < S THEN current + i - 1 ELSE (current + i - 1) - S
        BY <3>1, WaitingPlace
      <3>3. q[i] = buffer2[x]
        BY <1>7, <1>8, <2>1
      <3> HIDE DEF x
      <3>4. x \in Index /\ (x = last <=> i = n + 1)
        BY <1>1, <1>7, <1>10, <2>1, <3>1, <3>2 DEF Index
      <3>5. CASE i = n + 1
        BY <1>9, <1>12, <3>3, <3>4, <3>5
      <3>6. CASE i # n + 1
        <4>1. i \in 1..n
          BY <1>7, <3>6
        <4> QED BY <1>7, <1>9, <1>12, <3>3, <3>4, <3>6, <4>1 DEF x
      <3> QED BY <3>5, <3>6
    <2>3. q = t
      <3>1. Len(q) = Len(t)
        BY <1>8, <1>9, <2>1
      <3>2. \A i \in 1..Len(q) : q[i] = t[i]
        BY <1>8, <2>1, <2>2
      <3> QED BY <1>8, <1>9, <3>1, <3>2, SeqEqual
    <2>4. Discipline!LastOf(t, S - 1) = t
      <3>1. S - 1 \in Nat /\ Len(t) <= S - 1
        BY <1>1, <1>7, <1>9, <2>1
      <3> QED BY <1>9, <3>1, LastOfShort
    <2>5. k = IF n = S - 1 THEN S - 1 ELSE n + 1
      BY <1>1, <1>7, <2>1
    <2> QED BY <1>3, <1>5, <1>6, <2>3, <2>4, <2>5 DEF p, q, t, n, k
  <1>14. CASE next = current
    <2>1. first = Ring(next + 1) /\ n = S - 1 /\ k = S - 1
      <3>1. first = IF next + 1 < S THEN next + 1 ELSE 0
        BY <1>4, <1>5, <1>14
      <3>2. n = S - 1
        BY <1>1, <1>2, <1>10, <1>14 DEF Index
      <3>3. k = S - 1
        BY <1>1, <1>3, <1>11, <3>1 DEF Index
      <3> QED BY <1>5, <1>14, <3>2, <3>3
    <2> DEFINE u == SubSeq(t, 2, Len(t))
    <2>2. Discipline!LastOf(t, S - 1) = u
      <3>1. S - 1 \in Nat /\ Len(t) = (S - 1) + 1
        BY <1>1, <1>9, <2>1
      <3> QED BY <1>9, <3>1, LastOfLong
    <2>3. u \in Seq(Char) /\ Len(u) = S - 1 /\ \A i \in 1..(S - 1) : u[i] = t[i + 1]
      <3>1. Len(t) = S
        BY <1>1, <1>9, <2>1
      <3>2. \A i \in 2..S : t[i] \in Char
        BY <1>1, <1>9, <3>1, ElementOfSeq
      <3>3. 2 \in Int /\ S \in Int /\ 2 <= S /\ S - 2 + 1 = S - 1
        BY <1>1
      <3>4. /\ u \in Seq(Char) /\ Len(u) = S - 2 + 1
            /\ \A i \in 1..(S - 2 + 1) : u[i] = t[2 + i - 1]
        BY <3>1, <3>2, <3>3, SubSeqProperties
      <3> HIDE DEF u
      <3> QED BY <1>1, <3>3, <3>4
    <2> HIDE DEF u
    <2>4. ASSUME NEW i \in 1..(S - 1)
          PROVE  q[i] = u[i]
      <3>1. i \in 1..S /\ i + 1 \in 1..S
        BY <1>1
      <3> DEFINE x == Ring(first + i - 1)
                 y == Ring(current + (i + 1) - 1)
      <3>2. x = IF first + i - 1 < S THEN first + i - 1 ELSE (first + i - 1) - S
        BY <1>5, <3>1, WaitingPlace
      <3>3. y = IF current + (i + 1) - 1 < S THEN current + (i + 1) - 1
                ELSE (current + (i + 1) - 1) - S
        BY <3>1, WaitingPlace
      <3>4. q[i] = buffer2[x]
        BY <1>8, <2>1
      <3>5. i + 1 \in 1..n => p[i + 1] = buffer[y]
        BY <1>7
      <3> HIDE DEF x, y
      <3>6. x = y /\ x \in Index /\ (x = last <=> i = S - 1)
        <4>1. first = IF current + 1 < S THEN current + 1 ELSE 0
          BY <1>4, <1>5, <1>14
        <4>2. current = IF last + 1 < S THEN last + 1 ELSE 0
          BY <1>2, <1>14
        <4>3. x = IF current + i < S THEN current + i ELSE current + i - S
          BY <1>1, <3>1, <3>2, <4>1 DEF Index
        <4>4. y = IF current + i < S THEN current + i ELSE current + i - S
          BY <1>1, <3>1, <3>3 DEF Index
        <4>5. x \in Index
          BY <1>1, <3>1, <4>3 DEF Index
        <4>6. x = last <=> i = S - 1
          BY <1>1, <3>1, <4>2, <4>3 DEF Index
        <4> QED BY <4>3, <4>4, <4>5, <4>6
      <3>7. u[i] = t[i + 1]
        BY <2>3
      <3>8. CASE i = S - 1
        BY <1>9, <1>12, <2>1, <3>4, <3>6, <3>7, <3>8
      <3>9. CASE i # S - 1
        <4>1. i + 1 \in 1..n
          BY <1>1, <2>1, <3>9
        <4>2. t[i + 1] = p[i + 1]
          BY <1>9, <4>1
        <4> QED BY <1>12, <3>4, <3>5, <3>6, <3>7, <3>9, <4>1, <4>2
      <3> QED BY <3>8, <3>9
    <2>5. q = u
      <3>1. Len(q) = Len(u)
        BY <1>8, <2>1, <2>3
      <3>2. \A i \in 1..Len(q) : q[i] = u[i]
        BY <1>8, <2>1, <2>4
      <3> QED BY <1>8, <2>3, <3>1, <3>2, SeqEqual
    <2>6. k = IF n = S - 1 THEN S - 1 ELSE n + 1
      BY <2>1
    <2> QED BY <1>3, <1>5, <1>6, <2>2, <2>5, <2>6 DEF p, q, t, n, k
  <1> QED BY <1>13, <1>14

(* Backspace takes the last of them. *)
LEMMA Erased ==
    ASSUME NEW buffer \in [Index -> Char],
           NEW current \in Index, NEW last \in Index, last # current
    PROVE  /\ last - 1 \in LastIndex
           /\ Ring(last - 1 - current) = Ring(last - current) - 1
           /\ PendingOf(buffer, current, last) # <<>>
           /\ PendingOf(buffer, current, last - 1)
                  = Discipline!Front(PendingOf(buffer, current, last))
  <1> DEFINE before == last - 1
             p == PendingOf(buffer, current, last)
             q == PendingOf(buffer, current, before)
             n == Ring(last - current)
             k == Ring(before - current)
             u == SubSeq(p, 1, Len(p) - 1)
  <1>1. S \in Nat \ {0, 1}
    BY ConsoleAssumption DEF S
  <1>2. last \in LastIndex /\ before \in LastIndex
    BY <1>1 DEF Index, LastIndex
  <1>3. n = IF current <= last THEN last - current ELSE last - current + S
    BY <1>2, WaitingCount
  <1>4. k = IF current <= before THEN before - current ELSE before - current + S
    <2> HIDE DEF before
    <2> QED BY <1>2, WaitingCount
  <1>5. k = n - 1 /\ n \in Nat \ {0}
    <2> HIDE DEF n, k
    <2> QED BY <1>1, <1>3, <1>4 DEF Index
  <1>6. /\ p \in Seq(Char) /\ Len(p) = n
        /\ \A i \in 1..n : p[i] = buffer[Ring(current + i - 1)]
    <2> HIDE DEF p, n
    <2> QED BY <1>2, WaitingChars DEF p, n
  <1>7. /\ q \in Seq(Char) /\ Len(q) = k
        /\ \A i \in 1..k : q[i] = buffer[Ring(current + i - 1)]
    <2> HIDE DEF q, k, before
    <2> QED BY <1>2, WaitingChars DEF q, k
  <1> HIDE DEF p, q, n, k
  <1>8. u \in Seq(Char) /\ Len(u) = n - 1 /\ \A i \in 1..(n - 1) : u[i] = p[i]
    <2>1. \A i \in 1..(n - 1) : p[i] \in Char
      BY <1>5, <1>6, ElementOfSeq
    <2>2. 1 \in Int /\ n - 1 \in Int /\ Len(p) - 1 = n - 1
      BY <1>5, <1>6
    <2>3. LET v == SubSeq(p, 1, n - 1)
          IN  /\ v \in Seq(Char)
              /\ Len(v) = IF 1 <= n - 1 THEN n - 1 - 1 + 1 ELSE 0
              /\ \A i \in 1..(n - 1 - 1 + 1) : v[i] = p[1 + i - 1]
      BY <2>1, <2>2, SubSeqProperties
    <2>4. u = SubSeq(p, 1, n - 1)
      BY <2>2
    <2> HIDE DEF u
    <2> QED BY <1>5, <2>3, <2>4
  <1> HIDE DEF u
  <1>9. q = u
    <2>1. Len(q) = Len(u)
      BY <1>5, <1>7, <1>8
    <2>2. ASSUME NEW i \in 1..k
          PROVE  q[i] = u[i]
      <3>1. i \in 1..n /\ i \in 1..(n - 1)
        BY <1>5
      <3>2. q[i] = buffer[Ring(current + i - 1)]
        BY <1>7
      <3>3. p[i] = buffer[Ring(current + i - 1)]
        BY <1>6, <3>1
      <3>4. u[i] = p[i]
        BY <1>8, <3>1
      <3> QED BY <3>2, <3>3, <3>4
    <2>3. \A i \in 1..Len(q) : q[i] = u[i]
      BY <1>7, <2>2
    <2> QED BY <1>7, <1>8, <2>1, <2>3, SeqEqual
  <1>10. p # <<>>
    BY <1>5, <1>6, EmptySeq
  <1> QED BY <1>2, <1>5, <1>9, <1>10 DEF p, q, u, n, k, before, Discipline!Front

(* After Enter nothing waits. *)
LEMMA NothingWaits ==
    ASSUME NEW buffer \in [Index -> Char], NEW current \in Index
    PROVE  Ring(current - current) = 0 /\ PendingOf(buffer, current, current) = <<>>
  <1>1. current \in LastIndex /\ current - current = 0
    BY DEF Index, LastIndex
  <1>2. Ring(current - current) = 0
    <2>1. Ring(current - current) = IF current <= current THEN current - current
                                    ELSE current - current + S
      BY <1>1, WaitingCount
    <2> QED BY <1>1, <2>1 DEF Index
  <1> DEFINE p == PendingOf(buffer, current, current)
  <1>3. p \in Seq(Char) /\ Len(p) = Ring(current - current)
    <2> HIDE DEF p
    <2> QED BY <1>1, WaitingChars DEF p
  <1> HIDE DEF p
  <1>4. p = <<>>
    BY <1>2, <1>3, EmptySeq
  <1> QED BY <1>2, <1>4 DEF p

(* To take a piece of a line is to move on in the line buffer. *)
LEMMA Taken ==
    ASSUME NEW s \in Seq(Char), NEW c \in 0..Len(s), NEW k \in 1..(Len(s) - c)
    PROVE  SubSeq(s, (c + k) + 1, Len(s))
               = SubSeq(SubSeq(s, c + 1, Len(s)), k + 1, Len(SubSeq(s, c + 1, Len(s))))
  <1> DEFINE L == Len(s)
             t == SubSeq(s, c + 1, L)
  <1>1. L \in Nat /\ c \in Nat /\ k \in Nat \ {0} /\ c + k <= L
    OBVIOUS
  <1>2. Len(t) = L - c /\ t \in Seq(Char)
    <2>1. \A i \in (c + 1)..L : s[i] \in Char
      BY <1>1, ElementOfSeq
    <2>2. c + 1 \in Int /\ L \in Int
      BY <1>1
    <2>3. t \in Seq(Char) /\ Len(t) = IF c + 1 <= L THEN L - (c + 1) + 1 ELSE 0
      <3> HIDE DEF L
      <3> QED BY <2>1, <2>2, SubSeqProperties
    <2> HIDE DEF t, L
    <2> QED BY <1>1, <2>3
  <1>3. CASE c + k = L
    <2>1. SubSeq(s, (c + k) + 1, L) = <<>>
      <3>1. (c + k) + 1 \in Int /\ L \in Int /\ L < (c + k) + 1
        BY <1>1, <1>3
      <3> HIDE DEF L
      <3> QED BY <3>1, SubSeqEmpty
    <2>2. SubSeq(t, k + 1, Len(t)) = <<>>
      <3>1. k + 1 \in Int /\ Len(t) \in Int /\ Len(t) < k + 1
        BY <1>1, <1>2, <1>3
      <3> HIDE DEF t
      <3> QED BY <3>1, SubSeqEmpty
    <2> QED BY <2>1, <2>2
  <1>4. CASE c + k < L
    <2> DEFINE i == c + 1
               m == k + 1
               n == L - c
    <2>1. /\ i \in 1..Len(s) /\ L \in 1..Len(s)
          /\ m \in 1..(L - i + 1) /\ n \in 1..(L - i + 1)
          /\ i + m - 1 = (c + k) + 1 /\ i + n - 1 = L
      BY <1>1, <1>4
    <2> HIDE DEF i, m, n, L
    <2>2. SubSeq(SubSeq(s, i, L), m, n) = SubSeq(s, i + m - 1, i + n - 1)
      BY <2>1, SubSeqOfSubSeq
    <2> QED BY <1>2, <2>1, <2>2 DEF i, m, n, L
  <1> QED BY <1>1, <1>3, <1>4
-----------------------------------------------------------------------------
(* The ring of keyboard.c and the line buffer of dev.c.                    *)

ConsoleInv ==
    /\ stdin_buffer \in [Index -> Char]
    /\ stdin_buffer_current \in Index
    /\ stdin_buffer_last \in LastIndex
    /\ line_buffer \in Seq(Char)
    /\ line_buffer_current \in 0..Len(line_buffer)

(* What waits, before and after a step. *)
LEMMA PendingIs == Pending = PendingOf(stdin_buffer, stdin_buffer_current, stdin_buffer_last)
  BY DEF Pending, PendingCount, PendingOf

LEMMA PendingWillBe ==
    Pending' = PendingOf(stdin_buffer', stdin_buffer_current', stdin_buffer_last')
  BY DEF Pending, PendingCount, PendingOf, Ring

(* At boot nothing is typed. *)
LEMMA InitConsole == Init => ConsoleInv /\ Discipline!Init
  <1> SUFFICES ASSUME Init
               PROVE  ConsoleInv /\ Discipline!Init
    OBVIOUS
  <1>1. /\ stdin_buffer = [i \in 0..(STDIN_BUFFER_SIZE - 1) |-> "null"]
        /\ stdin_buffer_current = 0 /\ stdin_buffer_last = 0
        /\ line_buffer = <<>> /\ line_buffer_current = 0
    BY DEF Init, ConsoleInit
  <1>2. stdin_buffer \in [Index -> Char]
    BY <1>1 DEF Index, S, Char
  <1>3. 0 \in Index /\ 0 \in LastIndex
    BY ConsoleAssumption DEF Index, LastIndex, S
  <1>4. line_buffer \in Seq(Char) /\ Len(line_buffer) = 0
    BY <1>1
  <1>5. Pending = <<>>
    <2>1. PendingOf(stdin_buffer, 0, 0) = <<>>
      BY <1>2, <1>3, NothingWaits
    <2>2. PendingOf(stdin_buffer, stdin_buffer_current, stdin_buffer_last) = <<>>
      BY <1>1, <2>1
    <2> QED BY <2>2, PendingIs
  <1>6. Line = <<>>
    BY <1>1, <1>4, SubSeqEmpty DEF Line
  <1> QED BY <1>1, <1>2, <1>3, <1>4, <1>5, <1>6 DEF ConsoleInv, Discipline!Init

(* A step that leaves the input alone is a stutter of the discipline. *)
LEMMA InputUnchanged ==
    ASSUME UNCHANGED inputVars
    PROVE  Pending' = Pending /\ Line' = Line
  <1>1. /\ stdin_buffer' = stdin_buffer
        /\ stdin_buffer_current' = stdin_buffer_current
        /\ stdin_buffer_last' = stdin_buffer_last
        /\ line_buffer' = line_buffer
        /\ line_buffer_current' = line_buffer_current
    BY DEF inputVars
  <1>2. Line' = Line
    BY <1>1 DEF Line
  <1> QED BY <1>1, <1>2, PendingIs, PendingWillBe

(* Each key, and each read, is a step of the discipline. *)
LEMMA TypeKeyStep ==
    ASSUME ConsoleInv, NEW k \in Key, TypeKey(k)
    PROVE  ConsoleInv' /\ Discipline!Next
  <1> DEFINE c == CharOf(k)
  <1>1. c \in Letter /\ c \in Char
    BY DEF CharOf, Letter, Char
  <1>2. Stores(stdin_buffer, stdin_buffer_current, stdin_buffer_last, c,
               stdin_buffer', stdin_buffer_current', stdin_buffer_last')
    BY DEF TypeKey, Store, Stores
  <1>3. line_buffer' = line_buffer /\ line_buffer_current' = line_buffer_current
    BY DEF TypeKey
  <1>4. stdin_buffer_last \in Index
    BY DEF TypeKey, InBounds, ConsoleInv, LastIndex, Index
  <1>5. stdin_buffer \in [Index -> Char] /\ stdin_buffer_current \in Index
    BY DEF ConsoleInv
  <1> HIDE DEF c
  <1>6. /\ stdin_buffer' \in [Index -> Char]
        /\ stdin_buffer_current' \in Index
        /\ stdin_buffer_last' \in Index
        /\ PendingOf(stdin_buffer', stdin_buffer_current', stdin_buffer_last')
               = Discipline!LastOf(Append(PendingOf(stdin_buffer, stdin_buffer_current,
                                                    stdin_buffer_last), c), S - 1)
    BY <1>1, <1>2, <1>4, <1>5, Stored
  <1>7. stdin_buffer_last' \in LastIndex
    BY <1>6, ConsoleAssumption DEF Index, LastIndex, S
  <1>8. Line' = Line
    BY <1>3 DEF Line
  <1>9. Pending' = Discipline!LastOf(Append(Pending, c), STDIN_BUFFER_SIZE - 1)
    BY <1>6, PendingIs, PendingWillBe DEF S
  <1>10. Discipline!Type(c)
    BY <1>8, <1>9 DEF Discipline!Type
  <1> QED BY <1>1, <1>3, <1>6, <1>7, <1>10 DEF ConsoleInv, Discipline!Next

LEMMA EnterKeyStep ==
    ASSUME ConsoleInv, EnterKey
    PROVE  ConsoleInv' /\ Discipline!Next
  <1>1. /\ line_buffer' = Pending /\ line_buffer_current' = 0
        /\ stdin_buffer_current' = stdin_buffer_last
        /\ stdin_buffer' = stdin_buffer /\ stdin_buffer_last' = stdin_buffer_last
    BY DEF EnterKey
  <1>2. stdin_buffer_last \in Index
    BY DEF EnterKey, InBounds, ConsoleInv, LastIndex, Index
  <1>3. Pending' = <<>>
    BY <1>1, <1>2, NothingWaits, PendingWillBe DEF ConsoleInv
  <1>4. Pending \in Seq(Char)
    BY WaitingChars, PendingIs DEF ConsoleInv
  <1>5. Line' = Pending
    <2>1. Line' = SubSeq(Pending, 1, Len(Pending))
      BY <1>1 DEF Line
    <2> QED BY <1>4, <2>1, SubSeqFull
  <1>6. Discipline!Enter
    BY <1>3, <1>5 DEF Discipline!Enter
  <1>7. ConsoleInv'
    <2>1. Len(Pending) \in Nat
      BY <1>4
    <2> QED BY <1>1, <1>2, <1>4, <2>1 DEF ConsoleInv
  <1> QED BY <1>6, <1>7 DEF Discipline!Next

LEMMA BackspaceKeyStep ==
    ASSUME ConsoleInv, BackspaceKey, stdin_buffer_last # stdin_buffer_current
    PROVE  ConsoleInv' /\ Discipline!Next
  <1>1. /\ stdin_buffer_last' = stdin_buffer_last - 1
        /\ stdin_buffer' = stdin_buffer
        /\ stdin_buffer_current' = stdin_buffer_current
        /\ line_buffer' = line_buffer /\ line_buffer_current' = line_buffer_current
    BY DEF BackspaceKey
  <1>2. stdin_buffer_last \in Index
    BY DEF BackspaceKey, InBounds, ConsoleInv, LastIndex, Index
  <1>3. /\ stdin_buffer_last - 1 \in LastIndex
        /\ Pending # <<>>
        /\ PendingOf(stdin_buffer, stdin_buffer_current, stdin_buffer_last - 1)
               = Discipline!Front(Pending)
    BY <1>2, Erased, PendingIs DEF ConsoleInv
  <1>4. Pending' = Discipline!Front(Pending)
    BY <1>1, <1>3, PendingWillBe
  <1>5. Line' = Line
    BY <1>1 DEF Line
  <1>6. Discipline!Erase
    BY <1>3, <1>4, <1>5 DEF Discipline!Erase
  <1> QED BY <1>1, <1>3, <1>6 DEF ConsoleInv, Discipline!Next

LEMMA StdinReadStep ==
    ASSUME ConsoleInv, NEW size \in 1..STDIN_BUFFER_SIZE, StdinRead(size)
    PROVE  ConsoleInv' /\ Discipline!Next
  <1> DEFINE L == Len(line_buffer)
             k == IF line_buffer_current + size <= L THEN size ELSE L - line_buffer_current
  <1>1. /\ line_buffer_current < L
        /\ line_buffer_current' = Min({line_buffer_current + size, L})
        /\ line_buffer' = line_buffer
        /\ stdin_buffer' = stdin_buffer
        /\ stdin_buffer_current' = stdin_buffer_current
        /\ stdin_buffer_last' = stdin_buffer_last
    BY DEF StdinRead
  <1>2. L \in Nat /\ line_buffer_current \in 0..L
    BY DEF ConsoleInv
  <1>3. line_buffer_current' = line_buffer_current + k /\ k \in 1..(L - line_buffer_current)
    <2> DEFINE a == line_buffer_current + size
    <2>1. a \in Int
      BY <1>2, ConsoleAssumption
    <2>2. Min({a, L}) = IF a <= L THEN a ELSE L
      <3> HIDE DEF a, L
      <3> QED BY <1>2, <2>1, SmallerOfTwo
    <2> HIDE DEF L
    <2> QED BY <1>1, <1>2, <2>2, ConsoleAssumption
  <1> HIDE DEF k
  <1>4. SubSeq(line_buffer, (line_buffer_current + k) + 1, L)
            = SubSeq(Line, k + 1, Len(Line))
    BY <1>3, Taken DEF ConsoleInv, Line
  <1>5. Line' = SubSeq(Line, k + 1, Len(Line))
    <2>1. Line' = SubSeq(line_buffer', line_buffer_current' + 1, Len(line_buffer'))
      BY DEF Line
    <2>2. line_buffer' = line_buffer /\ Len(line_buffer') = L
      BY <1>1
    <2>3. line_buffer_current' + 1 = (line_buffer_current + k) + 1
      BY <1>3
    <2> HIDE DEF L
    <2>4. Line' = SubSeq(line_buffer, (line_buffer_current + k) + 1, L)
      BY <2>1, <2>2, <2>3, Zenon
    <2> QED BY <1>4, <2>4, Zenon
  <1>6. Pending' = Pending
    BY <1>1, PendingIs, PendingWillBe
  <1>7. k \in 1..Len(Line)
    <2>1. \A i \in (line_buffer_current + 1)..L : line_buffer[i] \in Char
      BY <1>2 DEF ConsoleInv
    <2>2. line_buffer_current + 1 \in Int /\ L \in Int /\ line_buffer_current + 1 <= L
      BY <1>1, <1>2
    <2>3. Len(Line) = L - (line_buffer_current + 1) + 1
      BY <2>1, <2>2, SubSeqProperties DEF Line
    <2> HIDE DEF L
    <2> QED BY <1>2, <1>3, <2>3
  <1>8. Discipline!Take(k)
    BY <1>5, <1>6 DEF Discipline!Take
  <1>9. ConsoleInv'
    BY <1>1, <1>2, <1>3 DEF ConsoleInv
  <1> QED BY <1>7, <1>8, <1>9 DEF Discipline!Next

(* So is every step of the devices, or a stutter. *)
LEMMA ConsoleNextStep ==
    ASSUME ConsoleInv, [Next]_vars
    PROVE  ConsoleInv' /\ [Discipline!Next]_(Discipline!disciplineVars)
  <1>1. ASSUME UNCHANGED inputVars
        PROVE  ConsoleInv' /\ UNCHANGED Discipline!disciplineVars
    BY <1>1, InputUnchanged DEF ConsoleInv, inputVars, Discipline!disciplineVars
  <1>2. CASE UNCHANGED vars \/ KeyAtBoot \/ BootStep \/ TimerStep
    <2>1. UNCHANGED inputVars
      BY <1>2 DEF vars, consoleVars, KeyAtBoot, ModifierDown, ModifierUp, BootStep, TimerStep
    <2> QED BY <1>1, <2>1
  <1>3. CASE ConsoleNext
    <2>1. CASE ModifierDown \/ ModifierUp
      BY <1>1, <2>1 DEF ModifierDown, ModifierUp
    <2>2. ASSUME NEW t, ProgramOutput(t)
          PROVE  ConsoleInv' /\ UNCHANGED Discipline!disciplineVars
      BY <1>1, <2>2 DEF ProgramOutput
    <2>3. CASE \/ \E c \in Output : PutChar(c)
               \/ FramebufferPut
               \/ FramebufferClear
               \/ \E place \in CursorPlace : FramebufferCursor(place[1], place[2])
      BY <2>2, <2>3 DEF PutChar, FramebufferPut, FramebufferClear, FramebufferCursor
    <2>4. CASE BackspaceKey
      <3>1. CASE stdin_buffer_last = stdin_buffer_current
        <4>1. UNCHANGED inputVars
          BY <2>4, <3>1 DEF BackspaceKey, inputVars
        <4> QED BY <1>1, <4>1
      <3> QED BY <2>4, <3>1, BackspaceKeyStep
    <2>5. CASE \E k \in Key : TypeKey(k)
      BY <2>5, TypeKeyStep
    <2>6. CASE \E size \in 1..STDIN_BUFFER_SIZE : StdinRead(size)
      BY <2>6, StdinReadStep
    <2>7. CASE EnterKey
      BY <2>7, EnterKeyStep
    <2> QED BY <1>3, <2>1, <2>3, <2>4, <2>5, <2>6, <2>7 DEF ConsoleNext
  <1> QED BY <1>2, <1>3 DEF Next, ConsoleStep

(***************************************************************************)
(* The ring of fill_stdin_buffer with the line buffer that stdin_read      *)
(* takes from is a line discipline for any size of the ring: no character  *)
(* is lost, doubled or reordered, but for the oldest of a line that is too *)
(* long and for a line that the next Enter replaces.                       *)
(***************************************************************************)
THEOREM RingImplementsDiscipline == Spec => RefinesLineDiscipline
  <1>1. Spec => []ConsoleInv
    BY InitConsole, ConsoleNextStep, PTL DEF Spec
  <1> QED BY <1>1, InitConsole, ConsoleNextStep, PTL
          DEF Spec, RefinesLineDiscipline, Discipline!Spec
-----------------------------------------------------------------------------
(* The cursor of framebuffer.c.                                            *)

W == BUFFER_WIDTH
H == BUFFER_HEIGHT

Row == 0..(H - 1)
Col == 0..(W - 1)
Scrolled == {0, 1}

Terminal == [row : Row, col : Col, hw : Int, up : Scrolled, escape : Nat]

LEMMA ScreenSize == W \in Nat \ {0} /\ H \in Nat \ {0} /\ W * H <= 2^16
  BY CursorAssumption DEF W, H

(* The rows of the screen, in cells. *)
LEMMA RowsOfCells ==
    ASSUME NEW row \in Row
    PROVE  /\ row * W \in Nat
           /\ (row + 1) * W = row * W + W
           /\ row * W + W <= 2^16
           /\ row = H - 1 => row * W + W = H * W
  <1>1. W \in Nat \ {0} /\ H \in Nat \ {0} /\ H * W <= 2^16
    <2>1. W * H = H * W
      BY ScreenSize
    <2> QED BY <2>1, ScreenSize
  <1>2. row \in Nat /\ row + 1 \in Nat /\ row + 1 <= H
    BY <1>1 DEF Row
  <1>3. (row + 1) * W <= H * W
    BY <1>1, <1>2, Multiples
  <1>4. row * W \in Nat /\ (row + 1) * W = row * W + W
    BY <1>1, <1>2, Multiples
  <1>5. row * W + W <= 2^16
    <2> DEFINE a == row * W + W
               b == H * W
    <2>1. a \in Int /\ b \in Int /\ a <= b /\ b <= 2^16
      BY <1>1, <1>3, <1>4
    <2> HIDE DEF a, b
    <2>2. a <= 2^16
      BY <2>1, SMT
    <2> QED BY <2>2 DEF a
  <1>6. row = H - 1 => row * W + W = H * W
    <2>1. row = H - 1 => row + 1 = H
      BY <1>1, <1>2
    <2> QED BY <1>4, <2>1
  <1> QED BY <1>4, <1>5, <1>6

(* A place on the screen fits into 16 bits. *)
LEMMA PlaceFits ==
    ASSUME NEW row \in Row, NEW col \in Col
    PROVE  /\ row * W + col \in Nat
           /\ (row * W + col) % 2^16 = row * W + col
  <1> DEFINE a == row * W
  <1>1. a \in Nat /\ a + W <= 2^16
    BY RowsOfCells
  <1> HIDE DEF a
  <1>2. a + col \in Nat /\ a + col < 2^16
    BY <1>1, ScreenSize, SMT DEF Col
  <1>3. (a + col) % 2^16 = a + col
    BY <1>2, SMT
  <1> QED BY <1>2, <1>3 DEF a

(* Clamp stays on the screen, and leaves alone what is on it. *)
LEMMA Clamped ==
    ASSUME NEW size \in Nat \ {0}, NEW old \in 0..(size - 1), NEW x \in Int
    PROVE  /\ Clamp(x, old, size) \in 0..(size - 1)
           /\ x \in 0..(size - 1) => Clamp(x, old, size) = x
  <1>1. Min({x, size - 1}) = IF x <= size - 1 THEN x ELSE size - 1
    BY SmallerOfTwo
  <1> DEFINE m == Min({x, size - 1})
  <1>2. m \in Int
    BY <1>1
  <1> HIDE DEF m
  <1>3. Max({0, m}) = IF 0 <= m THEN m ELSE 0
    BY <1>2, GreaterOfTwo
  <1>4. Clamp(x, old, size) = IF x = -1 THEN old ELSE Max({0, m})
    BY DEF Clamp, m
  <1>5. m = IF x <= size - 1 THEN x ELSE size - 1
    BY <1>1 DEF m
  <1> QED BY <1>3, <1>4, <1>5

(* framebuffer_set_cursor, anywhere. *)
LEMMA CursorSet ==
    ASSUME NEW t \in Terminal, NEW row \in Int, NEW col \in Int,
           NEW u, u = SetCursor(t, row, col)
    PROVE  /\ u \in Terminal
           /\ u.row = Clamp(row, t.row, H) /\ u.col = Clamp(col, t.col, W)
           /\ u.hw = (row * W + col) % 2^16
           /\ u.up = t.up /\ u.escape = t.escape
  <1> DEFINE h == (row * W + col) % 2^16
             r == Clamp(row, t.row, H)
             c == Clamp(col, t.col, W)
  <1>1. h \in Int
    <2> DEFINE a == row * W + col
    <2>1. a \in Int
      BY ScreenSize
    <2> HIDE DEF a
    <2>2. a % 2^16 \in Int
      BY <2>1, SMT
    <2> QED BY <2>2 DEF a
  <1>2. t.row \in 0..(H - 1) /\ t.col \in 0..(W - 1)
    BY DEF Terminal, Row, Col
  <1>3. r \in Row
    BY <1>2, ScreenSize, Clamped DEF Row
  <1>4. c \in Col
    BY <1>2, ScreenSize, Clamped DEF Col
  <1>5. u = [t EXCEPT !.hw = h, !.row = r, !.col = c]
    BY DEF SetCursor, W, H
  <1> HIDE DEF h, r, c
  <1> DEFINE u1 == [t EXCEPT !.hw = h]
             u2 == [u1 EXCEPT !.row = r]
             u3 == [u2 EXCEPT !.col = c]
  <1>6. u1 \in Terminal
    BY <1>1 DEF Terminal
  <1>7. u2 \in Terminal
    <2> HIDE DEF u1
    <2> QED BY <1>3, <1>6 DEF Terminal
  <1>8. u3 \in Terminal
    <2> HIDE DEF u2
    <2> QED BY <1>4, <1>7 DEF Terminal
  <1>9. u3 = u
    BY <1>5
  <1>10. u3.hw = h /\ u3.row = r /\ u3.col = c /\ u3.up = t.up /\ u3.escape = t.escape
    BY DEF Terminal
  <1> HIDE DEF u3
  <1> QED BY <1>8, <1>9, <1>10 DEF h, r, c

(* A place on the screen is reached, by the hardware too. *)
LEMMA CursorAt ==
    ASSUME NEW t \in Terminal, NEW row \in Row, NEW col \in Col,
           NEW u, u = SetCursor(t, row, col)
    PROVE  /\ u \in Terminal
           /\ u.row = row /\ u.col = col /\ u.up = t.up /\ u.escape = t.escape
           /\ Position(u) = row * W + col /\ u.hw = Position(u)
  <1>1. row \in Int /\ col \in Int /\ row \in 0..(H - 1) /\ col \in 0..(W - 1)
    BY ScreenSize DEF Row, Col
  <1>2. t.row \in 0..(H - 1) /\ t.col \in 0..(W - 1)
    BY DEF Terminal, Row, Col
  <1>3. Clamp(row, t.row, H) = row
    BY <1>1, <1>2, ScreenSize, Clamped
  <1>4. Clamp(col, t.col, W) = col
    BY <1>1, <1>2, ScreenSize, Clamped
  <1>5. /\ u \in Terminal /\ u.row = row /\ u.col = col
        /\ u.hw = (row * W + col) % 2^16 /\ u.up = t.up /\ u.escape = t.escape
    BY <1>1, <1>3, <1>4, CursorSet
  <1>6. Position(u) = row * W + col
    BY <1>5 DEF Position, W
  <1> QED BY <1>5, <1>6, PlaceFits

(* framebuffer_move_cursor, in any direction. *)
LEMMA CursorMoved ==
    ASSUME NEW t \in Terminal, NEW direction,
           NEW u, u = MoveCursor(t, direction)
    PROVE  u \in Terminal /\ u.up = t.up
  <1> DEFINE row == t.row + (CASE direction = "UP" -> -1 [] direction = "DOWN" -> 1 [] OTHER -> 0)
             col == t.col + (CASE direction = "LEFT" -> -1 [] direction = "RIGHT" -> 1 [] OTHER -> 0)
  <1>1. row \in Int /\ col \in Int
    BY ScreenSize DEF Terminal, Row, Col
  <1>2. u = SetCursor(t, row, col)
    BY DEF MoveCursor
  <1> HIDE DEF row, col
  <1>3. SetCursor(t, row, col) \in Terminal /\ SetCursor(t, row, col).up = t.up
    BY <1>1, CursorSet
  <1> QED BY <1>2, <1>3, Zenon

(* And to the left, when there is a place to the left. *)
LEMMA CursorBack ==
    ASSUME NEW t \in Terminal, t.col > 0, NEW u, u = MoveCursor(t, "LEFT")
    PROVE  /\ u \in Terminal
           /\ u.row = t.row /\ u.col = t.col - 1 /\ u.up = t.up /\ u.escape = t.escape
           /\ Position(u) = t.row * W + (t.col - 1) /\ u.hw = Position(u)
  <1>1. t.row \in Row /\ t.col \in Col
    BY DEF Terminal
  <1>2. t.row + 0 = t.row /\ t.col + -1 = t.col - 1 /\ t.col - 1 \in Col
    BY <1>1, ScreenSize DEF Row, Col
  <1>3. MoveCursor(t, "LEFT") = SetCursor(t, t.row + 0, t.col + -1)
    BY DEF MoveCursor
  <1>4. u = SetCursor(t, t.row, t.col - 1)
    BY <1>2, <1>3
  <1> QED BY <1>1, <1>2, <1>4, CursorAt

(* At the end of the screen everything moves up. *)
LEMMA LineBelow ==
    ASSUME NEW t \in Terminal, t.up = 0, NEW u, u = NextLine(t)
    PROVE  /\ u \in Terminal /\ u.escape = t.escape
           /\ Position(u) = (t.row * W + W) - u.up * W /\ u.hw = Position(u)
  <1>1. t.row \in Row /\ 0 \in Col /\ t.row \in 0..(H - 1)
    BY ScreenSize DEF Terminal, Row, Col
  <1> DEFINE row == t.row + 1
  <1>2. u = IF row = H THEN [SetCursor(t, row - 1, 0) EXCEPT !.up = 1] ELSE SetCursor(t, row, 0)
    BY DEF NextLine, Scrolling, H
  <1>3. CASE row = H
    <2> DEFINE v == SetCursor(t, t.row, 0)
    <2>1. row - 1 = t.row
      BY <1>1, ScreenSize
    <2>2. u = [v EXCEPT !.up = 1]
      BY <1>2, <1>3, <2>1
    <2>3. /\ v \in Terminal
          /\ v.row = t.row /\ v.col = 0 /\ v.escape = t.escape
          /\ Position(v) = t.row * W + 0 /\ v.hw = Position(v)
      BY <1>1, CursorAt
    <2> HIDE DEF v
    <2>4. /\ u \in Terminal /\ u.up = 1
          /\ u.row = v.row /\ u.col = v.col /\ u.hw = v.hw /\ u.escape = v.escape
      BY <2>2, <2>3 DEF Terminal, Scrolled
    <2>5. Position(u) = Position(v)
      BY <2>4 DEF Position
    <2> DEFINE a == t.row * W
    <2>6. a \in Nat
      BY <1>1, RowsOfCells
    <2> HIDE DEF a
    <2>7. a + 0 = (a + W) - 1 * W
      BY <2>6, ScreenSize
    <2>8. t.row * W + 0 = (t.row * W + W) - u.up * W
      BY <2>4, <2>7 DEF a
    <2> QED BY <2>3, <2>4, <2>5, <2>8
  <1>4. CASE row # H
    <2>1. row \in Row
      BY <1>1, <1>4, ScreenSize DEF Row
    <2>2. u = SetCursor(t, row, 0)
      BY <1>2, <1>4
    <2>3. row * W = t.row * W + W
      BY <1>1, RowsOfCells
    <2> DEFINE a == t.row * W + W
    <2>4. a \in Nat
      BY <1>1, RowsOfCells, ScreenSize
    <2> HIDE DEF row
    <2>5. /\ u \in Terminal /\ u.up = 0 /\ u.escape = t.escape
          /\ Position(u) = row * W + 0 /\ u.hw = Position(u)
      BY <1>1, <2>1, <2>2, CursorAt
    <2>6. Position(u) = a + 0
      BY <2>3, <2>5
    <2> HIDE DEF a
    <2>7. a + 0 = a - 0 * W
      BY <2>4, ScreenSize
    <2>8. Position(u) = a - u.up * W
      BY <2>5, <2>6, <2>7
    <2>9. Position(u) = (t.row * W + W) - u.up * W
      BY <2>8, Zenon DEF a
    <2> QED BY <2>5, <2>9
  <1> QED BY <1>3, <1>4

(* A character moves the cursor, and the hardware's, by one. *)
LEMMA PutMoves ==
    ASSUME NEW t \in Terminal, t.up = 0, NEW u, u = Put(t)
    PROVE  /\ u \in Terminal /\ u.escape = t.escape
           /\ Position(u) = (Position(t) + 1) - u.up * W /\ u.hw = Position(u)
  <1>1. t.row \in Row /\ t.col \in Col
    BY DEF Terminal
  <1> DEFINE a == t.row * W
  <1>2. a \in Nat
    BY <1>1, RowsOfCells
  <1>3. Position(t) = a + t.col
    BY DEF Position, W
  <1>4. CASE t.col + 1 = W
    <2>1. u = NextLine(t)
      BY <1>4 DEF Put, W
    <2>2. /\ u \in Terminal /\ u.escape = t.escape
          /\ Position(u) = (a + W) - u.up * W /\ u.hw = Position(u)
      BY <2>1, LineBelow
    <2> HIDE DEF a
    <2>3. a + W = a + t.col + 1
      BY <1>1, <1>2, <1>4, ScreenSize DEF Col
    <2>4. Position(u) = (Position(t) + 1) - u.up * W
      BY <1>3, <2>2, <2>3, Zenon
    <2> QED BY <2>2, <2>4
  <1>5. CASE t.col + 1 # W
    <2>1. u = SetCursor(t, t.row, t.col + 1)
      BY <1>5 DEF Put, W
    <2>2. t.col + 1 \in Col
      BY <1>1, <1>5, ScreenSize DEF Col
    <2>3. /\ u \in Terminal /\ u.escape = t.escape /\ u.up = 0
          /\ Position(u) = a + (t.col + 1) /\ u.hw = Position(u)
      BY <1>1, <2>1, <2>2, CursorAt
    <2> HIDE DEF a
    <2>4. a + (t.col + 1) = (a + t.col + 1) - 0 * W
      BY <1>1, <1>2, ScreenSize DEF Col
    <2> QED BY <1>3, <2>3, <2>4
  <1> QED BY <1>4, <1>5

(* fputc leaves the cursor on the screen, in an escape sequence or not. *)
LEMMA Printed ==
    ASSUME NEW t \in Terminal, t.up = 0, NEW c, NEW u, u = Fputc(t, c)
    PROVE  u \in Terminal
  <1>1. CASE c = "esc" \/ t.escape > 0
    <2>1. CASE EndsEscape(c)
      <3> DEFINE v == ProcessEscape(t, c)
      <3>1. v \in Terminal
        <4>1. \A direction : MoveCursor(t, direction) \in Terminal
          BY CursorMoved
        <4>2. Clear(t) \in Terminal
          <5>1. 0 \in Int
            OBVIOUS
          <5> QED BY <5>1, CursorSet DEF Clear
        <4> QED BY <4>1, <4>2 DEF ProcessEscape
      <3>2. u = [v EXCEPT !.escape = 0]
        BY <1>1, <2>1 DEF Fputc
      <3> HIDE DEF v
      <3> QED BY <3>1, <3>2 DEF Terminal
    <2>2. CASE ~EndsEscape(c)
      <3>1. u = [t EXCEPT !.escape = @ + 1]
        BY <1>1, <2>2 DEF Fputc
      <3> QED BY <3>1 DEF Terminal
    <2> QED BY <2>1, <2>2
  <1>2. CASE ~(c = "esc" \/ t.escape > 0)
    <2>1. u = NextLine(t) \/ u = Put(t)
      BY <1>2 DEF Fputc
    <2> QED BY <2>1, LineBelow, PutMoves
  <1> QED BY <1>1, <1>2

(* Backspace: a place back, a blank, and a place back again. *)
LEMMA EchoErased ==
    ASSUME NEW t \in Terminal, t.up = 0, NEW u, u = EraseEcho(t)
    PROVE  /\ u \in Terminal
           /\ t.escape = 0 /\ t.col # 0 => /\ u.up = 0
                                         /\ Position(u) = Position(t) - 1
                                         /\ u.hw = Position(u)
  <1> DEFINE v == MoveCursor(t, "LEFT")
             w == Fputc(v, " ")
  <1>1. v \in Terminal /\ v.up = 0
    BY CursorMoved
  <1>2. w \in Terminal
    <2> HIDE DEF v
    <2>1. \A c : Fputc(v, c) \in Terminal
      BY <1>1, Printed
    <2> QED BY <2>1, Zenon
  <1>3. u = MoveCursor(w, "LEFT")
    BY Zenon DEF EraseEcho
  <1>4. u \in Terminal
    <2> HIDE DEF w
    <2> QED BY <1>2, <1>3, CursorMoved
  <1>5. ASSUME t.escape = 0, t.col # 0
        PROVE  u.up = 0 /\ Position(u) = Position(t) - 1 /\ u.hw = Position(u)
    <2>1. t.row \in Row /\ t.col \in Col /\ t.col > 0
      BY <1>5, ScreenSize DEF Terminal, Row, Col
    <2>2. v.row = t.row /\ v.col = t.col - 1 /\ v.up = 0 /\ v.escape = 0
      BY <1>5, <2>1, CursorBack
    <2> HIDE DEF v
    <2>3. v.col + 1 = t.col /\ v.col + 1 # W
      BY <2>1, <2>2, ScreenSize DEF Col
    <2>4. w = SetCursor(v, t.row, t.col)
      BY <2>2, <2>3 DEF Fputc, Put, W
    <2> HIDE DEF w
    <2>5. w.row = t.row /\ w.col = t.col /\ w.up = 0
      BY <1>1, <2>1, <2>2, <2>4, CursorAt
    <2>6. u.up = 0 /\ Position(u) = w.row * W + (w.col - 1) /\ u.hw = Position(u)
      BY <1>2, <1>3, <2>1, <2>5, CursorBack
    <2> DEFINE a == t.row * W
    <2>7. a \in Nat /\ Position(t) = a + t.col
      BY <2>1, RowsOfCells DEF Position, W
    <2>8. Position(u) = a + (t.col - 1)
      BY <2>5, <2>6
    <2> HIDE DEF a
    <2>9. a + (t.col - 1) = (a + t.col) - 1
      BY <2>1, <2>7, ScreenSize DEF Col
    <2>10. Position(u) = Position(t) - 1
      BY <2>7, <2>8, <2>9, Zenon
    <2> QED BY <2>6, <2>10
  <1> QED BY <1>4, <1>5

-----------------------------------------------------------------------------
(* The echo of what was typed.                                             *)

(* Where the cursor stands also while nothing is typed; what the hardware  *)
(* knows then depends on where a program put it.                           *)
EchoInv ==
    /\ ConsoleInv
    /\ tty \in Terminal /\ tty.up = 0
    /\ start \in Int
    /\ start # Lost => /\ Position(tty) = start + PendingCount
                       /\ PendingCount > 0 => tty.hw = Position(tty)

LEMMA PositionType ==
    ASSUME NEW t \in Terminal
    PROVE  Position(t) \in Nat
  <1>1. t.row \in Row /\ t.col \in Col
    BY DEF Terminal
  <1> QED BY <1>1, PlaceFits DEF Position, W

LEMMA CountType == ConsoleInv => PendingCount \in 0..(S - 1)
  <1> SUFFICES ASSUME ConsoleInv
               PROVE  PendingCount \in 0..(S - 1)
    OBVIOUS
  <1>1. Ring(stdin_buffer_last - stdin_buffer_current) \in 0..(S - 1)
    BY WaitingChars DEF ConsoleInv
  <1> QED BY <1>1 DEF PendingCount

(* Show takes the terminal over, and the start along with what scrolls. *)
LEMMA Shown ==
    ASSUME NEW t \in Terminal, NEW s \in Int, Show(t, s)
    PROVE  /\ tty' \in Terminal /\ tty'.up = 0
           /\ Position(tty') = Position(t) /\ tty'.hw = t.hw
           /\ start' \in Int
           /\ start' = IF s = Lost THEN Lost ELSE s - t.up * W
  <1>1. tty' = [t EXCEPT !.up = 0] /\ start' = IF s = Lost THEN Lost ELSE s - t.up * W
    BY DEF Show, W
  <1>2. /\ tty' \in Terminal /\ tty'.up = 0 /\ tty'.hw = t.hw
        /\ tty'.row = t.row /\ tty'.col = t.col
    BY <1>1 DEF Terminal, Scrolled
  <1>3. Position(tty') = Position(t)
    BY <1>2 DEF Position
  <1>4. t.up * W \in Int /\ Lost \in Int
    <2>1. t.up \in Int
      BY DEF Terminal, Scrolled
    <2> QED BY <2>1, ScreenSize DEF Lost
  <1>5. start' \in Int
    <2> DEFINE b == t.up * W
    <2>1. b \in Int /\ Lost \in Int /\ start' = IF s = Lost THEN Lost ELSE s - b
      BY <1>1, <1>4
    <2> HIDE DEF b
    <2> QED BY <2>1
  <1> QED BY <1>1, <1>2, <1>3, <1>5

(* With nothing typed, the next character is typed at the cursor.          *)
LEMMA ShownAnew ==
    ASSUME ConsoleInv', NEW t \in Terminal,
           Show(t, Position(t) + t.up * BUFFER_WIDTH), PendingCount' = 0
    PROVE  EchoInv'
  <1> DEFINE b == t.up * W
             p == Position(t)
             s == p + b
  <1>1. p \in Nat /\ b \in Nat
    <2>1. t.up \in Nat
      BY DEF Terminal, Scrolled
    <2> QED BY <2>1, PositionType, ScreenSize
  <1>2. s \in Int /\ s # Lost
    <2> HIDE DEF b, p
    <2> QED BY <1>1 DEF Lost
  <1>3. Show(t, s)
    BY DEF W
  <1> HIDE DEF s
  <1>4. /\ tty' \in Terminal /\ tty'.up = 0 /\ Position(tty') = p
        /\ start' \in Int /\ start' = s - b
    BY <1>2, <1>3, Shown
  <1>5. s - b = p + 0
    <2> HIDE DEF b, p
    <2> QED BY <1>1 DEF s
  <1>6. Position(tty') = start' + PendingCount' /\ ~(PendingCount' > 0)
    <2>1. Position(tty') = p /\ start' = p
      <3> HIDE DEF b, p
      <3> QED BY <1>1, <1>4, <1>5
    <2> HIDE DEF p, b
    <2> QED BY <1>1, <2>1
  <1> QED BY <1>4, <1>6 DEF EchoInv

LEMMA InitEcho == Init => EchoInv
  <1> SUFFICES ASSUME Init
               PROVE  EchoInv
    OBVIOUS
  <1>1. tty = Home /\ start = 0 /\ stdin_buffer_current = 0 /\ stdin_buffer_last = 0
    BY DEF Init, ConsoleInit
  <1>2. ConsoleInv
    BY InitConsole
  <1>3. PendingCount = 0
    <2>1. Ring(0 - 0) = 0
      <3>1. 0 \in Index /\ 0 \in LastIndex
        BY ConsoleAssumption DEF Index, LastIndex, S
      <3>2. Ring(0 - 0) = IF 0 <= 0 THEN 0 - 0 ELSE 0 - 0 + S
        BY <3>1, WaitingCount
      <3> QED BY <3>2
    <2> QED BY <1>1, <2>1 DEF PendingCount
  <1>4. 0 \in Row /\ 0 \in Col
    BY ScreenSize DEF Row, Col
  <1>5. tty \in Terminal /\ tty.up = 0 /\ tty.row = 0 /\ tty.col = 0
    BY <1>1, <1>4 DEF Home, Terminal, Scrolled
  <1>6. Position(tty) = 0
    <2>1. 0 * W + 0 = 0
      BY ScreenSize
    <2> QED BY <1>5, <2>1 DEF Position, W
  <1> QED BY <1>1, <1>2, <1>3, <1>5, <1>6 DEF EchoInv

(* The echo of a character follows the ring. *)
LEMMA TypeKeyEcho ==
    ASSUME EchoInv, NEW k \in Key, TypeKey(k)
    PROVE  EchoInv'
  <1> DEFINE c == CharOf(k)
             n == PendingCount
             t == Fputc(tty, c)
             s == IF tty.escape > 0 \/ start = Lost THEN Lost
                  ELSE IF n = STDIN_BUFFER_SIZE - 1 THEN start + 1 ELSE start
  <1>1. c \in Letter /\ c \in Char /\ c # "esc" /\ c # "nl"
    BY TypedAssumption DEF CharOf, Letter, Char
  <1>2. ConsoleInv'
    BY TypeKeyStep DEF EchoInv
  <1>3. Show(t, s)
    BY DEF TypeKey
  <1>4. n \in 0..(S - 1) /\ n' = IF n = S - 1 THEN S - 1 ELSE n + 1
    <2>1. Stores(stdin_buffer, stdin_buffer_current, stdin_buffer_last, c,
                 stdin_buffer', stdin_buffer_current', stdin_buffer_last')
      BY DEF TypeKey, Store, Stores
    <2>2. stdin_buffer_last \in Index
      BY DEF TypeKey, InBounds, EchoInv, ConsoleInv, LastIndex, Index
    <2>3. stdin_buffer \in [Index -> Char] /\ stdin_buffer_current \in Index
      BY DEF EchoInv, ConsoleInv
    <2> HIDE DEF c
    <2>4. Ring(stdin_buffer_last' - stdin_buffer_current')
              = IF Ring(stdin_buffer_last - stdin_buffer_current) = S - 1 THEN S - 1
                ELSE Ring(stdin_buffer_last - stdin_buffer_current) + 1
      BY <1>1, <2>1, <2>2, <2>3, Stored
    <2>5. n \in 0..(S - 1)
      BY CountType DEF EchoInv
    <2> QED BY <2>4, <2>5 DEF PendingCount, Ring
  <1>5. tty \in Terminal /\ tty.up = 0 /\ start \in Int
    BY DEF EchoInv
  <1>6. t \in Terminal
    <2> HIDE DEF c
    <2> QED BY <1>5, Printed
  <1>7. s \in Int
    BY <1>5 DEF Lost
  <1> HIDE DEF s
  <1>8. /\ tty' \in Terminal /\ tty'.up = 0
        /\ Position(tty') = Position(t) /\ tty'.hw = t.hw
        /\ start' \in Int
        /\ start' = IF s = Lost THEN Lost ELSE s - t.up * W
    <2> HIDE DEF t
    <2> QED BY <1>3, <1>6, <1>7, Shown
  <1>9. ASSUME start' # Lost
        PROVE  Position(tty') = start' + n' /\ tty'.hw = Position(tty')
    <2>1. s # Lost /\ start' = s - t.up * W
      BY <1>8, <1>9
    <2>2. tty.escape = 0
      <3>1. ~(tty.escape > 0)
        BY <2>1 DEF s
      <3> QED BY <1>5, <3>1 DEF Terminal
    <2>3. start # Lost /\ s = IF n = S - 1 THEN start + 1 ELSE start
      BY <2>1, <2>2 DEF s, S
    <2>4. t = Put(tty)
      BY <1>1, <2>2 DEF Fputc
    <2> HIDE DEF t
    <2>5. Position(t) = (Position(tty) + 1) - t.up * W /\ t.hw = Position(t)
      BY <1>5, <2>4, PutMoves
    <2>6. Position(tty) = start + n
      BY <2>3 DEF EchoInv
    <2> DEFINE b == t.up * W
               m == n'
    <2>7. b \in Int
      <3>1. t.up \in Int
        BY <1>6 DEF Terminal, Scrolled
      <3> QED BY <3>1, ScreenSize
    <2>8. m = IF n = S - 1 THEN S - 1 ELSE n + 1
      BY <1>4
    <2>9. Position(t) = ((start + n) + 1) - b /\ start' = s - b
      BY <2>1, <2>5, <2>6
    <2> HIDE DEF b, m, n
    <2>10. ((start + n) + 1) - b = (s - b) + m
      BY <1>4, <1>5, <2>3, <2>7, <2>8, ConsoleAssumption DEF S
    <2>11. Position(tty') = start' + m
      BY <1>8, <2>9, <2>10, Zenon
    <2> QED BY <1>8, <2>5, <2>11 DEF m
  <1> QED BY <1>2, <1>8, <1>9 DEF EchoInv

(* Enter starts a line where the cursor stands. *)
LEMMA EnterKeyEcho ==
    ASSUME EchoInv, EnterKey
    PROVE  EchoInv'
  <1> DEFINE t == Fputc(tty, "nl")
             s == Position(t) + t.up * BUFFER_WIDTH
  <1>1. ConsoleInv'
    BY EnterKeyStep DEF EchoInv
  <1>2. Show(t, s)
    BY DEF EnterKey
  <1>3. PendingCount' = 0
    <2>1. stdin_buffer_last' = stdin_buffer_last /\ stdin_buffer_current' = stdin_buffer_last
      BY DEF EnterKey
    <2>2. stdin_buffer_last \in Index /\ stdin_buffer \in [Index -> Char]
      BY DEF EnterKey, InBounds, EchoInv, ConsoleInv, LastIndex, Index
    <2>3. Ring(stdin_buffer_last - stdin_buffer_last) = 0
      BY <2>2, NothingWaits
    <2>4. Ring(stdin_buffer_last' - stdin_buffer_current') = 0
      BY <2>1, <2>3
    <2> QED BY <2>4 DEF PendingCount, Ring
  <1>4. t \in Terminal
    BY Printed DEF EchoInv
  <1> HIDE DEF t
  <1> QED BY <1>1, <1>2, <1>3, <1>4, ShownAnew

(* The echo of an erase follows the ring. *)
LEMMA BackspaceKeyEcho ==
    ASSUME EchoInv, BackspaceKey, stdin_buffer_last # stdin_buffer_current
    PROVE  EchoInv'
  <1> DEFINE n == PendingCount
             t == EraseEcho(tty)
             s == IF tty.escape > 0 \/ tty.col = 0 THEN Lost ELSE start
  <1>1. ConsoleInv'
    BY BackspaceKeyStep DEF EchoInv
  <1>2. Show(t, s)
    BY DEF BackspaceKey
  <1>3. n \in 0..(S - 1) /\ n' = n - 1
    <2>1. /\ stdin_buffer_last' = stdin_buffer_last - 1
          /\ stdin_buffer_current' = stdin_buffer_current
      BY DEF BackspaceKey
    <2>2. /\ stdin_buffer_last \in Index /\ stdin_buffer \in [Index -> Char]
          /\ stdin_buffer_current \in Index
      BY DEF BackspaceKey, InBounds, EchoInv, ConsoleInv, LastIndex, Index
    <2>3. Ring(stdin_buffer_last - 1 - stdin_buffer_current)
              = Ring(stdin_buffer_last - stdin_buffer_current) - 1
      BY <2>2, Erased
    <2>4. n \in 0..(S - 1)
      BY CountType DEF EchoInv
    <2>5. n' = Ring(stdin_buffer_last - 1 - stdin_buffer_current)
      BY <2>1 DEF PendingCount, Ring
    <2> QED BY <2>3, <2>4, <2>5 DEF PendingCount
  <1>4. tty \in Terminal /\ tty.up = 0 /\ start \in Int
    BY DEF EchoInv
  <1>5. /\ t \in Terminal
        /\ tty.escape = 0 /\ tty.col # 0 => /\ t.up = 0
                                          /\ Position(t) = Position(tty) - 1
                                          /\ t.hw = Position(t)
    BY <1>4, EchoErased
  <1>6. s \in Int
    BY <1>4 DEF Lost
  <1> HIDE DEF t, s
  <1>7. /\ tty' \in Terminal /\ tty'.up = 0
        /\ Position(tty') = Position(t) /\ tty'.hw = t.hw
        /\ start' \in Int
        /\ start' = IF s = Lost THEN Lost ELSE s - t.up * W
    BY <1>2, <1>5, <1>6, Shown
  <1>8. ASSUME start' # Lost
        PROVE  Position(tty') = start' + n' /\ tty'.hw = Position(tty')
    <2>1. s # Lost /\ start' = s - t.up * W
      BY <1>7, <1>8
    <2>2. ~(tty.escape > 0) /\ tty.col # 0 /\ s = start
      BY <2>1 DEF s
    <2>3. tty.escape = 0
      BY <1>4, <2>2 DEF Terminal
    <2>4. t.up = 0 /\ Position(t) = Position(tty) - 1 /\ t.hw = Position(t)
      BY <1>5, <2>2, <2>3
    <2>5. Position(tty) = start + n
      BY <2>1, <2>2 DEF EchoInv
    <2>6. start' = start
      <3>1. start - 0 * W = start
        BY <1>4, ScreenSize
      <3> QED BY <2>1, <2>2, <2>4, <3>1
    <2> DEFINE m == n'
    <2>7. m = n - 1
      BY <1>3
    <2> HIDE DEF n, m
    <2>8. Position(tty') = start' + m
      BY <1>3, <1>4, <1>7, <2>4, <2>5, <2>6, <2>7
    <2> QED BY <1>7, <2>4, <2>8 DEF m
  <1> QED BY <1>1, <1>7, <1>8 DEF EchoInv

(* What a program prints while nothing is typed moves the place where the  *)
(* next character goes; while something is, the place is given up.         *)
LEMMA OutputEcho ==
    ASSUME EchoInv, NEW t \in Terminal, ProgramOutput(t)
    PROVE  EchoInv'
  <1>1. UNCHANGED inputVars
    BY DEF ProgramOutput
  <1>2. ConsoleInv' /\ PendingCount' = PendingCount
    BY <1>1 DEF EchoInv, ConsoleInv, inputVars, PendingCount, Ring
  <1>3. CASE PendingCount > 0
    <2>1. Show(t, Lost) /\ Lost \in Int
      BY <1>3 DEF ProgramOutput, Lost
    <2>2. tty' \in Terminal /\ tty'.up = 0 /\ start' = Lost /\ start' \in Int
      BY <2>1, Shown
    <2> QED BY <1>2, <2>2 DEF EchoInv
  <1>4. CASE ~(PendingCount > 0)
    <2>1. PendingCount \in 0..(S - 1)
      BY CountType DEF EchoInv
    <2>2. PendingCount' = 0
      <3> DEFINE n == PendingCount
                 m == n'
      <3>1. m = n
        BY <1>2
      <3> HIDE DEF n, m
      <3>2. n = 0
        BY <1>4, <2>1, ConsoleAssumption DEF n, S
      <3> QED BY <3>1, <3>2 DEF m, n
    <2>3. Show(t, Position(t) + t.up * BUFFER_WIDTH)
      BY <1>4 DEF ProgramOutput
    <2> QED BY <1>2, <2>2, <2>3, ShownAnew
  <1> QED BY <1>3, <1>4

(* Every step of the devices keeps the echo behind the input. *)
LEMMA NextEcho ==
    ASSUME EchoInv, [Next]_vars
    PROVE  EchoInv'
  <1>1. ASSUME UNCHANGED <<inputVars, tty, start>>
        PROVE  EchoInv'
    <2>1. /\ stdin_buffer' = stdin_buffer
          /\ stdin_buffer_current' = stdin_buffer_current
          /\ stdin_buffer_last' = stdin_buffer_last
          /\ line_buffer' = line_buffer /\ line_buffer_current' = line_buffer_current
          /\ tty' = tty /\ start' = start
      BY <1>1 DEF inputVars
    <2>2. PendingCount' = PendingCount /\ Position(tty') = Position(tty)
      BY <2>1 DEF PendingCount, Ring, Position
    <2>3. ConsoleInv'
      BY <2>1 DEF EchoInv, ConsoleInv
    <2> QED BY <2>1, <2>2, <2>3 DEF EchoInv
  <1>2. tty \in Terminal /\ tty.up = 0
    BY DEF EchoInv
  <1>3. CASE UNCHANGED vars \/ KeyAtBoot \/ BootStep \/ TimerStep
    <2>1. UNCHANGED <<inputVars, tty, start>>
      BY <1>3 DEF vars, consoleVars, KeyAtBoot, ModifierDown, ModifierUp, BootStep, TimerStep
    <2> QED BY <1>1, <2>1
  <1>4. CASE ConsoleNext
    <2>1. CASE ModifierDown \/ ModifierUp
      BY <1>1, <2>1 DEF ModifierDown, ModifierUp
    <2>2. CASE \E k \in Key : TypeKey(k)
      BY <2>2, TypeKeyEcho
    <2>3. CASE EnterKey
      BY <2>3, EnterKeyEcho
    <2>4. CASE BackspaceKey
      <3>1. CASE stdin_buffer_last = stdin_buffer_current
        <4>1. UNCHANGED <<inputVars, tty, start>>
          BY <2>4, <3>1 DEF BackspaceKey, inputVars
        <4> QED BY <1>1, <4>1
      <3> QED BY <2>4, <3>1, BackspaceKeyEcho
    <2>5. CASE \E size \in 1..STDIN_BUFFER_SIZE : StdinRead(size)
      <3>1. PICK size \in 1..STDIN_BUFFER_SIZE : StdinRead(size)
        BY <2>5
      <3>2. ConsoleInv'
        BY <3>1, StdinReadStep DEF EchoInv
      <3>3. /\ stdin_buffer_current' = stdin_buffer_current
            /\ stdin_buffer_last' = stdin_buffer_last
            /\ tty' = tty /\ start' = start
        BY <3>1 DEF StdinRead
      <3>4. PendingCount' = PendingCount /\ Position(tty') = Position(tty)
        BY <3>3 DEF PendingCount, Ring, Position
      <3> QED BY <3>2, <3>3, <3>4 DEF EchoInv
    <2>6. ASSUME NEW c \in Output, PutChar(c)
          PROVE  EchoInv'
      <3>1. Fputc(tty, c) \in Terminal
        BY <1>2, Printed
      <3> QED BY <2>6, <3>1, OutputEcho DEF PutChar
    <2>7. CASE FramebufferPut
      <3>1. Put(tty) \in Terminal
        BY <1>2, PutMoves
      <3> QED BY <2>7, <3>1, OutputEcho DEF FramebufferPut
    <2>8. CASE FramebufferClear
      <3>1. 0 \in Int
        OBVIOUS
      <3>2. SetCursor(tty, 0, 0) \in Terminal
        BY <1>2, <3>1, CursorSet
      <3> QED BY <2>8, <3>2, OutputEcho DEF FramebufferClear, Clear
    <2>9. ASSUME NEW place \in CursorPlace, FramebufferCursor(place[1], place[2])
          PROVE  EchoInv'
      <3>1. place[1] \in Int /\ place[2] \in Int
        BY TypedAssumption
      <3>2. SetCursor(tty, place[1], place[2]) \in Terminal
        BY <1>2, <3>1, CursorSet
      <3> QED BY <2>9, <3>2, OutputEcho DEF FramebufferCursor
    <2> QED BY <1>4, <2>1, <2>2, <2>3, <2>4, <2>5, <2>6, <2>7, <2>8, <2>9 DEF ConsoleNext
  <1> QED BY <1>3, <1>4 DEF Next, ConsoleStep

(***************************************************************************)
(* On a screen of any size and with a ring of any size, the cursor of the  *)
(* framebuffer and that of the hardware stand behind the characters one    *)
(* has typed and can still erase, whatever scrolls and whatever the ring   *)
(* dropped, unless a program printed between them, an escape sequence was  *)
(* open, or the erase met the margin.                                      *)
(***************************************************************************)
THEOREM EchoIsRight == Spec => []EchoFollowsInput
  <1>1. EchoInv => EchoFollowsInput
    BY DEF EchoInv, EchoFollowsInput
  <1> QED BY <1>1, InitEcho, NextEcho, PTL DEF Spec
=============================================================================
