--------------------------- MODULE EvidenceProofs ---------------------------
(* How one more frame changes the evidence in a history.                    *)
EXTENDS Evidence, TLAPS

\* A frame that does not clear the bar prolongs exactly the runs it joins
\* without a long silence.
LEMMA UnbrokenProlonged ==
  ASSUME NEW h \in Seq(Readouts), NEW f \in Readouts, NEW b \in Nat,
         NEW i \in 1..Len(h), ~Clears(f, b)
  PROVE  Unbroken(Append(h, f), i, b) <=>
           Unbroken(h, i, b) /\ f.at - h[Len(h)].at <= Stale
<1> DEFINE g == Append(h, f)
<1>1. /\ Len(g) = Len(h) + 1
      /\ g[Len(h) + 1] = f
      /\ \A j \in 1..Len(h) : g[j] = h[j]
  OBVIOUS
<1>2. Len(h) \in Nat /\ Len(h) \in 1..Len(h) /\ i \in Nat /\ i >= 1 /\ i <= Len(h)
  OBVIOUS
<1> HIDE DEF g
<1>3. IsLow(g[i], b) <=> IsLow(h[i], b)
  BY <1>1, <1>2
<1>4. (\A j \in i..Len(g) : ~Clears(g[j], b)) <=> (\A j \in i..Len(h) : ~Clears(h[j], b))
  <2>1. \A j \in i..Len(h) : g[j] = h[j]
    BY <1>1, <1>2
  <2>2. i..Len(g) = (i..Len(h)) \cup {Len(h) + 1}
    BY <1>1, <1>2
  <2> QED
    BY <2>1, <2>2, <1>1
<1>5. (\A j \in i..(Len(g) - 1) : g[j + 1].at - g[j].at <= Stale) <=>
        /\ \A j \in i..(Len(h) - 1) : h[j + 1].at - h[j].at <= Stale
        /\ f.at - h[Len(h)].at <= Stale
  <2>1. \A j \in i..(Len(h) - 1) : g[j + 1] = h[j + 1] /\ g[j] = h[j]
    BY <1>1, <1>2
  <2>2. i..(Len(g) - 1) = (i..(Len(h) - 1)) \cup {Len(h)}
    BY <1>1, <1>2
  <2>3. g[Len(h) + 1] = f /\ g[Len(h)] = h[Len(h)]
    BY <1>1, <1>2
  <2> QED
    BY <2>1, <2>2, <2>3
<1> QED
  BY <1>3, <1>4, <1>5 DEF Unbroken, g

\* The latest frame is a run of its own exactly when it is low.
LEMMA UnbrokenBegun ==
  ASSUME NEW h \in Seq(Readouts), NEW f \in Readouts, NEW b \in Nat
  PROVE  Unbroken(Append(h, f), Len(h) + 1, b) <=> IsLow(f, b)
<1>1. /\ Len(Append(h, f)) = Len(h) + 1 /\ Len(h) \in Nat
      /\ Append(h, f)[Len(h) + 1] = f
  OBVIOUS
<1> QED
  BY <1>1 DEF Unbroken, IsLow, Clears, Readouts

\* No run survives a frame that clears the bar.
LEMMA UnbrokenCleared ==
  ASSUME NEW h \in Seq(Readouts), NEW f \in Readouts, NEW b \in Nat,
         NEW i \in 1..(Len(h) + 1), Clears(f, b)
  PROVE  ~Unbroken(Append(h, f), i, b)
<1>1. /\ Len(Append(h, f)) = Len(h) + 1 /\ Len(h) \in Nat
      /\ Append(h, f)[Len(h) + 1] = f
  OBVIOUS
<1> QED
  BY <1>1 DEF Unbroken

-----------------------------------------------------------------------------
\* The latest frame came after a silence that severs the evidence.
Severed(h, f) == h # <<>> /\ f.at - h[Len(h)].at > Stale

Kept(h, f, x, nothing) == IF Severed(h, f) THEN nothing ELSE x

\* Nothing is remembered of no history.
LEMMA EmptyHistory ==
  ASSUME NEW b
  PROVE  Tallied(<<>>, b, 0, None)
<1>1. 1..Len(<<>>) = {}
  OBVIOUS
<1> QED
  BY <1>1 DEF Tallied

\* A frame without the field leaves the tally alone, once a long silence had
\* its say.
LEMMA TallyKept ==
  ASSUME NEW h \in Seq(Readouts), NEW f \in Readouts, NEW b \in Nat,
         NEW count \in Nat, NEW stamp \in Nat \cup {None},
         Tallied(h, b, count, stamp), f.value = Absent
  PROVE  Tallied(Append(h, f), b, Kept(h, f, count, 0), Kept(h, f, stamp, None))
<1> DEFINE g == Append(h, f)
           c == Kept(h, f, count, 0)
           s == Kept(h, f, stamp, None)
<1>1. ~Clears(f, b) /\ ~IsLow(f, b)
  BY DEF Clears, IsLow
<1>2. /\ Len(g) = Len(h) + 1 /\ Len(h) \in Nat
      /\ \A i \in 1..Len(h) : g[i] = h[i]
  OBVIOUS
<1>3. \A i \in 1..Len(h) :
        Unbroken(g, i, b) <=> Unbroken(h, i, b) /\ f.at - h[Len(h)].at <= Stale
  BY <1>1, UnbrokenProlonged
<1>4. ~Unbroken(g, Len(h) + 1, b)
  BY <1>1, UnbrokenBegun
<1>5. \A i \in 1..Len(h) : h # <<>>
  OBVIOUS
<1>6. f.at \in Nat /\ (h # <<>> => h[Len(h)].at \in Nat)
  <2>1. h # <<>> => h[Len(h)] \in Readouts
    OBVIOUS
  <2> QED
    BY <2>1 DEF Readouts
<1>7. Severed(h, f) => \A i \in 1..Len(h) : ~Unbroken(g, i, b)
  BY <1>3, <1>6, EvidenceAssumption DEF Severed
<1>8. ~Severed(h, f) => \A i \in 1..Len(h) : Unbroken(g, i, b) <=> Unbroken(h, i, b)
  BY <1>3, <1>5, <1>6, EvidenceAssumption DEF Severed
<1>9. \A i \in 1..Len(g) : Unbroken(g, i, b) => i \in 1..Len(h)
  BY <1>2, <1>4
<1> HIDE DEF g
<1>10. CASE Severed(h, f)
  <2>1. c = 0 /\ s = None
    BY <1>10 DEF Kept
  <2>2. \A i \in 1..Len(g) : ~Unbroken(g, i, b)
    BY <1>10, <1>7, <1>9
  <2>3. Tallied(g, b, 0, None)
    BY <2>2 DEF Tallied
  <2> QED
    BY <2>1, <2>3 DEF g
<1>11. CASE ~Severed(h, f)
  <2>1. c = count /\ s = stamp
    BY <1>11 DEF Kept
  <2>2. \A i \in 1..Len(h) : i \in 1..Len(g)
    BY <1>2
  <2>3. Tallied(g, b, count, stamp)
    BY <2>2, <1>11, <1>8, <1>9, <1>2 DEF Tallied
  <2> QED
    BY <2>1, <2>3 DEF g
<1> QED
  BY <1>10, <1>11

\* A low frame joins the run, or begins one.
LEMMA TallyGrown ==
  ASSUME NEW h \in Seq(Readouts), NEW f \in Readouts, NEW b \in Nat,
         NEW count \in Nat, NEW stamp \in Nat \cup {None},
         Tallied(h, b, count, stamp), IsLow(f, b),
         \A i \in 1..Len(h) : h[i].at <= f.at,
         NEW s, s = Kept(h, f, stamp, None)
  PROVE  Tallied(Append(h, f), b, Kept(h, f, count, 0) + 1,
                 IF s = None THEN f.at ELSE s)
<1> DEFINE g == Append(h, f)
           c == Kept(h, f, count, 0)
           d == IF s = None THEN f.at ELSE s
<1>1. ~Clears(f, b)
  BY DEF Clears, IsLow, Readouts
<1>2. /\ Len(g) = Len(h) + 1 /\ Len(h) \in Nat
      /\ g[Len(h) + 1] = f
      /\ \A i \in 1..Len(h) : g[i] = h[i]
      /\ \A i \in 1..Len(h) : h # <<>>
  OBVIOUS
<1>3. \A i \in 1..Len(h) :
        Unbroken(g, i, b) <=> Unbroken(h, i, b) /\ f.at - h[Len(h)].at <= Stale
  BY <1>1, UnbrokenProlonged
<1>4. Unbroken(g, Len(h) + 1, b)
  BY UnbrokenBegun
<1>5. f.at \in Nat /\ \A i \in 1..Len(h) : h[i].at \in Nat
  <2>1. \A i \in 1..Len(h) : h[i] \in Readouts
    OBVIOUS
  <2> QED
    BY <2>1 DEF Readouts
<1>6. c \in Nat /\ c + 1 # 0
  BY DEF Kept
<1>7. d \in Nat /\ d # None
  BY <1>5, EvidenceAssumption DEF Kept
<1> HIDE DEF g, c, d
<1>8. \E i \in 1..Len(g) : Unbroken(g, i, b) /\ g[i].at = d
  <2>1. CASE s = None
    <3>1. d = g[Len(h) + 1].at /\ Len(h) + 1 \in 1..Len(g)
      BY <2>1, <1>2 DEF d
    <3> QED
      BY <3>1, <1>4
  <2>2. CASE s # None
    <3>1. ~Severed(h, f) /\ stamp = s /\ d = s
      BY <2>2 DEF Kept, d
    <3>2. count # 0
      BY <3>1, <2>2 DEF Tallied
    <3>3. PICK i \in 1..Len(h) : Unbroken(h, i, b) /\ h[i].at = stamp
      BY <3>2 DEF Tallied
    <3>4. f.at - h[Len(h)].at <= Stale
      <4>1. Len(h) \in 1..Len(h) /\ h # <<>>
        BY <1>2
      <4> QED
        BY <4>1, <3>1, <1>5, EvidenceAssumption DEF Severed
    <3>5. Unbroken(g, i, b) /\ g[i].at = d /\ i \in 1..Len(g)
      BY <3>1, <3>3, <3>4, <1>2, <1>3
    <3> QED
      BY <3>5
  <2> QED
    BY <2>1, <2>2
<1>9. ASSUME NEW i \in 1..Len(g), Unbroken(g, i, b)
      PROVE  d <= g[i].at
  <2>1. CASE i \in 1..Len(h)
    <3>1. Unbroken(h, i, b) /\ f.at - h[Len(h)].at <= Stale
      BY <2>1, <1>3, <1>9
    <3>2. count # 0 /\ stamp <= h[i].at
      BY <2>1, <3>1 DEF Tallied
    <3>3. stamp # None
      BY <3>2 DEF Tallied
    <3>4. ~Severed(h, f)
      <4>1. Len(h) \in 1..Len(h)
        BY <2>1, <1>2
      <4> QED
        BY <4>1, <3>1, <1>5, EvidenceAssumption DEF Severed
    <3>5. d = stamp
      BY <3>3, <3>4 DEF d, Kept
    <3> QED
      BY <3>2, <3>5, <2>1, <1>2
  <2>2. CASE i = Len(h) + 1
    <3>1. g[i].at = f.at
      BY <2>2, <1>2
    <3>2. CASE s = None
      BY <3>1, <3>2, <1>5 DEF d
    <3>3. CASE s # None
      <4>1. count # 0 /\ stamp = s /\ d = s
        BY <3>3 DEF Kept, d, Tallied
      <4>2. PICK j \in 1..Len(h) : h[j].at = stamp
        BY <4>1 DEF Tallied
      <4> QED
        BY <4>1, <4>2, <3>1, <1>5
    <3> QED
      BY <3>2, <3>3
  <2> QED
    BY <2>1, <2>2, <1>2
<1>10. Tallied(g, b, c + 1, d)
  BY <1>6, <1>7, <1>8, <1>9 DEF Tallied
<1> QED
  BY <1>10 DEF g, c, d

\* A frame that clears the bar leaves nothing to remember.
LEMMA TallyCleared ==
  ASSUME NEW h \in Seq(Readouts), NEW f \in Readouts, NEW b \in Nat, Clears(f, b)
  PROVE  Tallied(Append(h, f), b, 0, None)
<1>1. Len(Append(h, f)) = Len(h) + 1
  OBVIOUS
<1>2. \A i \in 1..(Len(h) + 1) : ~Unbroken(Append(h, f), i, b)
  BY UnbrokenCleared
<1> QED
  BY <1>1, <1>2 DEF Tallied

\* The test both guards make on count and stamp asks whether the history
\* corroborates the low frame.
LEMMA TallyDecides ==
  ASSUME NEW h \in Seq(Readouts), NEW f \in Readouts, NEW b \in Nat,
         NEW count \in Nat, NEW stamp \in Nat \cup {None},
         Tallied(h, b, count, stamp), IsLow(f, b),
         NEW c, c = Kept(h, f, count, 0),
         NEW s, s = Kept(h, f, stamp, None)
  PROVE  Corroborated(Append(h, f), b) <=>
           c + 1 >= 2 /\ f.at - (IF s = None THEN f.at ELSE s) >= f.interval
<1> DEFINE g == Append(h, f)
           d == IF s = None THEN f.at ELSE s
<1>1. ~Clears(f, b)
  BY DEF Clears, IsLow, Readouts
<1>2. /\ Len(g) = Len(h) + 1 /\ Len(h) \in Nat
      /\ g[Len(h) + 1] = f
      /\ \A i \in 1..Len(h) : g[i] = h[i]
      /\ \A i \in 1..Len(h) : h # <<>> /\ Len(h) \in 1..Len(h)
  OBVIOUS
<1>3. \A i \in 1..Len(h) :
        Unbroken(g, i, b) <=> Unbroken(h, i, b) /\ f.at - h[Len(h)].at <= Stale
  BY <1>1, UnbrokenProlonged
<1>4. /\ f.at \in Nat /\ f.interval \in Nat
      /\ \A i \in 1..Len(h) : h[i].at \in Nat
  <2>1. \A i \in 1..Len(h) : h[i] \in Readouts
    OBVIOUS
  <2> QED
    BY <2>1 DEF Readouts
<1> HIDE DEF g, d
<1>5. ASSUME Corroborated(g, b)
      PROVE  c + 1 >= 2 /\ f.at - d >= f.interval
  <2>1. PICK i \in 1..Len(h) : Unbroken(g, i, b) /\ f.at - h[i].at >= f.interval
    BY <1>5, <1>2 DEF Corroborated
  <2>2. Unbroken(h, i, b) /\ ~Severed(h, f)
    BY <2>1, <1>2, <1>3, <1>4, EvidenceAssumption DEF Severed
  <2>3. count # 0 /\ stamp <= h[i].at /\ stamp # None
    BY <2>2 DEF Tallied
  <2>4. c = count /\ d = stamp
    BY <2>2, <2>3 DEF Kept, d
  <2> QED
    BY <2>1, <2>3, <2>4, <1>4
<1>6. ASSUME c + 1 >= 2, f.at - d >= f.interval
      PROVE  Corroborated(g, b)
  <2>1. ~Severed(h, f) /\ count # 0
    BY <1>6 DEF Kept
  <2>2. s = stamp /\ stamp # None /\ d = stamp
    BY <2>1 DEF Kept, Tallied, d
  <2>3. PICK i \in 1..Len(h) : Unbroken(h, i, b) /\ h[i].at = stamp
    BY <2>1 DEF Tallied
  <2>4. Unbroken(g, i, b)
    BY <2>1, <2>3, <1>2, <1>3, <1>4, EvidenceAssumption DEF Severed
  <2>5. /\ i \in 1..(Len(g) - 1)
        /\ g[Len(g)].at - g[i].at >= g[Len(g)].interval
    BY <1>2, <1>6, <2>2, <2>3
  <2> QED
    BY <2>4, <2>5 DEF Corroborated
<1> QED
  BY <1>5, <1>6 DEF g, d
=============================================================================
