-------------------------- MODULE VideoPath_proofs --------------------------
(***************************************************************************)
(* Proofs about the path of the video: VideoFraming, for any parameter     *)
(* sets, any number of slices and a capture of any length, joined at any   *)
(* place; and at the end BroadcastCapture, from which each stream reads    *)
(* what it frames, for any set of sinks, any chunks and any length.        *)
(***************************************************************************)
EXTENDS VideoFraming, BroadcastCapture, SequenceTheorems, TLAPS

-----------------------------------------------------------------------------
(* The capture                                                             *)

\* What AccessUnit gives for n: NAL units without a gap, from the first of an access
\* unit to its last slice.
Chained(u, n, aud) ==
  /\ u \in Seq(Nals) /\ Len(u) \in Nat \ {0}
  /\ \A i \in 1 .. Len(u) : Genuine(u[i], aud) /\ u[i].unit = n
  /\ \A i \in 1 .. Len(u) - 1 : Follows(u[i], u[i + 1], aud)
  /\ u[Len(u)].type = "slice" /\ u[Len(u)].part = u[Len(u)].of

\* What is where in a concatenation.
LEMMA ConcatAt ==
  ASSUME NEW S, NEW s \in Seq(S), NEW t \in Seq(S)
  PROVE  /\ s \o t \in Seq(S) /\ Len(s \o t) = Len(s) + Len(t)
         /\ Len(s) \in Nat /\ Len(t) \in Nat
         /\ \A i \in 1 .. Len(s) : (s \o t)[i] = s[i]
         /\ \A i \in 1 .. Len(t) : (s \o t)[Len(s) + i] = t[i]
<1>1. Len(s) \in Nat /\ Len(t) \in Nat
  BY LenProperties
<1> QED
  BY <1>1, ConcatProperties

\* The NAL units of an access unit before its slices, and its slices.
Prefix(h, n, idr, v, of, aud) ==
  /\ \A i \in 1 .. Len(h) : /\ h[i].type # "slice" /\ h[i].part = 0 /\ h[i].unit = n
                            /\ h[i].idr = idr /\ h[i].set = v /\ h[i].of = of
                            /\ h[i].type = "aud" => aud
                            /\ h[i].type \in {"sps", "pps"} => idr
  /\ \A i \in 1 .. Len(h) - 1 : h[i + 1].type \in Then(h[i].type, idr)
  /\ Len(h) > 0 => "slice" \in Then(h[Len(h)].type, idr)

Slices(s, n, idr, v, of) ==
  /\ Len(s) = of
  /\ \A i \in 1 .. of : /\ s[i].type = "slice" /\ s[i].part = i /\ s[i].unit = n
                        /\ s[i].idr = idr /\ s[i].set = v /\ s[i].of = of

\* One behind the other they make an access unit.
LEMMA HeadAndSlices ==
  ASSUME NEW n \in Nat, NEW idr, NEW v \in Sets, NEW of \in Nat \ {0},
         NEW h \in Seq(Nals), NEW s \in Seq(Nals), NEW aud,
         Prefix(h, n, idr, v, of, aud), Slices(s, n, idr, v, of)
  PROVE  Chained(h \o s, n, aud) /\ (h \o s)[1] = IF Len(h) = 0 THEN s[1] ELSE h[1]
<1> DEFINE u == h \o s
<1>1. \A i \in 1 .. of : /\ s[i] \in Nals /\ s[i].type = "slice" /\ s[i].unit = n
                         /\ s[i].idr = idr /\ s[i].set = v /\ s[i].part = i /\ s[i].of = of
  BY DEF Slices
<1>2. s \in Seq(Nals) /\ Len(s) = of
  BY DEF Slices
<1>3. /\ u \in Seq(Nals) /\ Len(u) = Len(h) + Len(s) /\ Len(h) \in Nat
      /\ \A i \in 1 .. Len(h) : u[i] = h[i]
      /\ \A i \in 1 .. Len(s) : u[Len(h) + i] = s[i]
  BY ConcatAt
<1> HIDE DEF u
<1>4. Len(u) = Len(h) + of
  BY <1>2, <1>3
<1>5. \A i \in 1 .. Len(h) : u[i] = h[i]
  BY <1>3
<1>6. \A i \in 1 .. of : u[Len(h) + i] = s[i]
  BY <1>2, <1>3
<1>7. ASSUME NEW i \in 1 .. Len(u)
      PROVE  Genuine(u[i], aud) /\ u[i].unit = n
  <2>1. CASE i <= Len(h)
    BY <1>3, <1>4, <1>5, <2>1 DEF Genuine, Prefix
  <2>2. CASE i > Len(h)
    <3>1. i - Len(h) \in 1 .. of /\ u[i] = s[i - Len(h)]
      BY <1>3, <1>4, <1>6, <2>2
    <3> QED
      BY <1>1, <3>1 DEF Genuine
  <2> QED
    BY <1>3, <1>4, <2>1, <2>2
<1>8. ASSUME NEW i \in 1 .. Len(u) - 1
      PROVE  Follows(u[i], u[i + 1], aud)
  <2>1. CASE i < Len(h)
    <3>1. u[i] = h[i] /\ u[i + 1] = h[i + 1] /\ i \in 1 .. Len(h) - 1
          /\ i \in 1 .. Len(h) /\ i + 1 \in 1 .. Len(h)
      BY <1>3, <1>4, <1>5, <2>1
    <3> QED
      BY <3>1 DEF Follows, SameUnit, Prefix
  <2>2. CASE i = Len(h)
    <3>1. u[i] = h[i] /\ i \in 1 .. Len(h) /\ u[i + 1] = s[1] /\ 1 \in 1 .. of
      BY <1>3, <1>4, <1>5, <1>6, <2>2
    <3> QED
      BY <1>1, <2>2, <3>1 DEF Follows, SameUnit, Prefix
  <2>3. CASE i > Len(h)
    <3>1. /\ i - Len(h) \in 1 .. of /\ (i - Len(h)) + 1 \in 1 .. of /\ i - Len(h) < of
          /\ u[i] = s[i - Len(h)] /\ u[i + 1] = s[(i - Len(h)) + 1]
      BY <1>2, <1>3, <1>4, <1>6, <2>3
    <3> DEFINE k == i - Len(h)
    <3> HIDE DEF k
    <3>2. /\ k \in 1 .. of /\ k + 1 \in 1 .. of /\ k < of
          /\ u[i] = s[k] /\ u[i + 1] = s[k + 1]
      BY <3>1 DEF k
    <3>3. /\ s[k].type = "slice" /\ s[k].part # s[k].of
          /\ s[k + 1].type = "slice" /\ s[k + 1].part = s[k].part + 1
      BY <1>1, <3>2
    <3>4. SameUnit(s[k], s[k + 1])
      BY <1>1, <3>2 DEF SameUnit
    <3>5. "slice" \in Then("slice", s[k].idr)
      BY DEF Then
    <3> QED
      BY <3>2, <3>3, <3>4, <3>5 DEF Follows
  <2> QED
    BY <1>3, <1>4, <2>1, <2>2, <2>3
<1>9. u[Len(u)] = s[of] /\ of \in 1 .. of /\ 1 \in 1 .. of
  BY <1>3, <1>4, <1>6
<1>10. u[1] = IF Len(h) = 0 THEN s[1] ELSE h[1]
  BY <1>3, <1>4, <1>9
<1>11. Chained(u, n, aud)
  BY <1>1, <1>3, <1>4, <1>7, <1>8, <1>9 DEF Chained
<1> QED
  BY <1>10, <1>11 DEF u

\* Every access unit is such a sequence, with what comes first in one.
LEMMA AccessUnitChained ==
  ASSUME NEW n \in Nat, NEW aud \in BOOLEAN, NEW u \in AccessUnits(n, aud)
  PROVE  /\ Chained(u, n, aud)
         /\ u[1].type \in IF aud THEN {"aud"} ELSE Then("aud", u[1].idr)
         /\ u[1].part = IF u[1].type = "slice" THEN 1 ELSE 0
<1>1. PICK idr \in BOOLEAN, v \in Sets, of \in 1 .. SliceMax, sei \in BOOLEAN :
        u = AccessUnit(n, idr, v, of, aud, sei)
  BY DEF AccessUnits
<1> DEFINE N(type) == Nal(type, n, idr, v, 0, of)
           a == IF aud THEN <<N("aud")>> ELSE <<>>
           b == IF idr THEN <<N("sps"), N("pps")>> ELSE <<>>
           c == IF sei THEN <<N("sei")>> ELSE <<>>
           h == a \o b \o c
           s == [i \in 1 .. of |-> Nal("slice", n, idr, v, i, of)]
<1>2. u = h \o s /\ of \in Nat \ {0}
  BY <1>1, BoundAssumption DEF AccessUnit
<1>3. \A type \in {"aud", "sps", "pps", "sei"} :
        /\ N(type) \in Nals /\ N(type).type = type /\ N(type).unit = n /\ N(type).idr = idr
        /\ N(type).set = v /\ N(type).part = 0 /\ N(type).of = of
  BY <1>2 DEF Nal, Nals
<1> HIDE DEF N
<1>4. /\ h \in Seq(Nals)
      /\ \A i \in 1 .. Len(h) : \E type \in {"aud", "sps", "pps", "sei"} :
           h[i] = N(type) /\ (type = "aud" => aud) /\ (type \in {"sps", "pps"} => idr)
      /\ \A i \in 1 .. Len(h) - 1 : h[i + 1].type \in Then(h[i].type, idr)
      /\ Len(h) > 0 => "slice" \in Then(h[Len(h)].type, idr)
      /\ IF Len(h) = 0
         THEN ~aud /\ ~idr
         ELSE h[1].type \in IF aud THEN {"aud"} ELSE Then("aud", idr)
  <2>1. CASE aud /\ idr /\ sei
    <3>1. h = (<<N("aud")>> \o <<N("sps"), N("pps")>>) \o <<N("sei")>>
      BY <2>1
    <3> HIDE DEF h
    <3>2. h \in Seq(Nals) /\ Len(h) = 4 /\ h[1] = N("aud") /\ h[2] = N("sps") /\ h[3] = N("pps")
            /\ h[4] = N("sei")
      BY <1>3, <3>1
    <3> QED
      BY <1>3, <2>1, <3>2 DEF Then
  <2>2. CASE aud /\ idr /\ ~sei
    <3>1. h = (<<N("aud")>> \o <<N("sps"), N("pps")>>) \o <<>>
      BY <2>2
    <3> HIDE DEF h
    <3>2. h \in Seq(Nals) /\ Len(h) = 3 /\ h[1] = N("aud") /\ h[2] = N("sps") /\ h[3] = N("pps")
      BY <1>3, <3>1
    <3> QED
      BY <1>3, <2>2, <3>2 DEF Then
  <2>3. CASE aud /\ ~idr /\ sei
    <3>1. h = (<<N("aud")>> \o <<>>) \o <<N("sei")>>
      BY <2>3
    <3> HIDE DEF h
    <3>2. h \in Seq(Nals) /\ Len(h) = 2 /\ h[1] = N("aud") /\ h[2] = N("sei")
      BY <1>3, <3>1
    <3> QED
      BY <1>3, <2>3, <3>2 DEF Then
  <2>4. CASE aud /\ ~idr /\ ~sei
    <3>1. h = (<<N("aud")>> \o <<>>) \o <<>>
      BY <2>4
    <3> HIDE DEF h
    <3>2. h \in Seq(Nals) /\ Len(h) = 1 /\ h[1] = N("aud")
      BY <1>3, <3>1
    <3> QED
      BY <1>3, <2>4, <3>2 DEF Then
  <2>5. CASE ~aud /\ idr /\ sei
    <3>1. h = (<<>> \o <<N("sps"), N("pps")>>) \o <<N("sei")>>
      BY <2>5
    <3> HIDE DEF h
    <3>2. h \in Seq(Nals) /\ Len(h) = 3 /\ h[1] = N("sps") /\ h[2] = N("pps") /\ h[3] = N("sei")
      BY <1>3, <3>1
    <3> QED
      BY <1>3, <2>5, <3>2 DEF Then
  <2>6. CASE ~aud /\ idr /\ ~sei
    <3>1. h = (<<>> \o <<N("sps"), N("pps")>>) \o <<>>
      BY <2>6
    <3> HIDE DEF h
    <3>2. h \in Seq(Nals) /\ Len(h) = 2 /\ h[1] = N("sps") /\ h[2] = N("pps")
      BY <1>3, <3>1
    <3> QED
      BY <1>3, <2>6, <3>2 DEF Then
  <2>7. CASE ~aud /\ ~idr /\ sei
    <3>1. h = (<<>> \o <<>>) \o <<N("sei")>>
      BY <2>7
    <3> HIDE DEF h
    <3>2. h \in Seq(Nals) /\ Len(h) = 1 /\ h[1] = N("sei")
      BY <1>3, <3>1
    <3> QED
      BY <1>3, <2>7, <3>2 DEF Then
  <2>8. CASE ~aud /\ ~idr /\ ~sei
    <3>1. h = (<<>> \o <<>>) \o <<>>
      BY <2>8
    <3> HIDE DEF h
    <3>2. h \in Seq(Nals) /\ Len(h) = 0
      BY <1>3, <3>1
    <3> QED
      BY <1>3, <2>8, <3>2 DEF Then
  <2> QED
    BY <2>1, <2>2, <2>3, <2>4, <2>5, <2>6, <2>7, <2>8
<1> HIDE DEF h
<1>5. \A i \in 1 .. Len(h) : /\ h[i].type # "slice" /\ h[i].part = 0 /\ h[i].unit = n
                             /\ h[i].idr = idr /\ h[i].set = v /\ h[i].of = of
                             /\ h[i].type = "aud" => aud
                             /\ h[i].type \in {"sps", "pps"} => idr
  BY <1>3, <1>4
<1>6. /\ Chained(u, n, aud) /\ u[1].idr = idr
      /\ IF Len(h) = 0 THEN u[1].type = "slice" /\ u[1].part = 1 ELSE u[1] = h[1]
  <2>1. \A i \in 1 .. of : /\ s[i] \in Nals /\ s[i].type = "slice" /\ s[i].part = i
                           /\ s[i].unit = n /\ s[i].idr = idr /\ s[i].set = v /\ s[i].of = of
    BY <1>2 DEF s, Nal, Nals
  <2>2. s \in Seq(Nals) /\ Len(s) = of
    <3>1. s \in [1 .. of -> Nals]
      BY <1>2, <2>1 DEF s
    <3> QED
      BY <1>2, <3>1
  <2>3. v \in Sets /\ h \in Seq(Nals) /\ of \in Nat \ {0}
    BY <1>2, <1>4
  <2> HIDE DEF s
  <2>4. Slices(s, n, idr, v, of) /\ Prefix(h, n, idr, v, of, aud)
    BY <1>4, <1>5, <2>1, <2>2 DEF Slices, Prefix
  <2> HIDE DEF s
  <2>7. Chained(h \o s, n, aud) /\ (h \o s)[1] = IF Len(h) = 0 THEN s[1] ELSE h[1]
    BY <2>2, <2>3, <2>4, HeadAndSlices
  <2>8. Len(h) = 0 => u[1] = s[1] /\ 1 \in 1 .. of
    BY <1>2, <2>3, <2>7
  <2>9. Len(h) # 0 => u[1] = h[1] /\ 1 \in 1 .. Len(h)
    <3>1. Len(h) \in Nat
      BY <2>3, LenProperties
    <3> QED
      BY <1>2, <2>7, <3>1
  <2> QED
    BY <1>2, <1>5, <2>1, <2>7, <2>8, <2>9
<1>7. CASE Len(h) = 0
  BY <1>4, <1>6, <1>7 DEF Then
<1>8. CASE Len(h) # 0
  <2>1. 1 \in 1 .. Len(h)
    BY <1>4, <1>8
  <2> QED
    BY <1>4, <1>5, <1>6, <1>8, <2>1
<1> QED
  BY <1>7, <1>8

\* The NAL units that come are typed and the rest of such sequences.
Coming == nals \in Seq(Nals) /\ unit \in Nat /\ delimited \in BOOLEAN /\ Capture

\* Taking one leaves it so, if another is there or no start code has been found.
LEMMA TakeOne ==
  ASSUME Coming, nals # <<>>, nals' = Tail(nals), annexB' => Len(nals) > 1,
         unit' = unit, delimited' = delimited
  PROVE  Coming' /\ (Len(nals) > 1 => nals' # <<>> /\ nals'[1] = nals[2])
<1>1. /\ Len(nals) \in Nat \ {0} /\ nals' \in Seq(Nals) /\ Len(nals') = Len(nals) - 1
      /\ \A i \in 1 .. Len(nals') : nals'[i] = nals[i + 1]
  BY EmptySeq, HeadTailProperties DEF Coming
<1>2. Len(nals) > 1 => nals' # <<>> /\ nals'[1] = nals[2]
  <2>1. nals' # <<>> <=> Len(nals') # 0
    BY <1>1, EmptySeq
  <2>2. ASSUME Len(nals) > 1 PROVE nals'[1] = nals[1 + 1]
    BY <1>1, <2>2
  <2> QED
    BY <1>1, <2>1, <2>2
<1>3. ASSUME NEW i \in 1 .. Len(nals')
      PROVE  Genuine(nals'[i], delimited') /\ nals'[i].unit = unit'
               /\ nals'[i].unit \in {unit' - 1, unit'}
  <2>1. i + 1 \in 1 .. Len(nals) /\ i + 1 \in 2 .. Len(nals) /\ Len(nals) > 1
    BY <1>1
  <2> QED
    BY <1>1, <2>1 DEF Coming, Capture
<1>4. ASSUME NEW i \in 1 .. Len(nals') - 1
      PROVE  Follows(nals'[i], nals'[i + 1], delimited')
  <2>1. i \in Nat /\ i + 1 \in 1 .. Len(nals) - 1 /\ i \in 1 .. Len(nals')
          /\ i + 1 \in 1 .. Len(nals')
    BY <1>1
  <2>2. Follows(nals[i + 1], nals[(i + 1) + 1], delimited)
    BY <2>1 DEF Coming, Capture
  <2>3. nals'[i] = nals[i + 1] /\ nals'[i + 1] = nals[(i + 1) + 1]
    BY <1>1, <2>1
  <2> QED
    BY <2>2, <2>3
<1>5. nals' # <<>> => nals'[Len(nals')] = nals[Len(nals)] /\ Len(nals') # 0
  BY <1>1, EmptySeq
<1>6. Capture'
  BY <1>1, <1>2, <1>3, <1>4, <1>5 DEF Coming, Capture
<1> QED
  BY <1>1, <1>2, <1>6 DEF Coming

\* What joins a capture gets the rest of an access unit.
LEMMA Rest ==
  ASSUME delimited \in BOOLEAN, unit = 1, annexB = FALSE, NEW u, Chained(u, 1, delimited),
         NEW k \in 1 .. Len(u) + 1, nals = SubSeq(u, k, Len(u))
  PROVE  Coming
<1>1. u \in Seq(Nals) /\ Len(u) \in Nat \ {0} /\ \A i \in 1 .. Len(u) : u[i] \in Nals
  BY ElementOfSeq DEF Chained
<1>2. /\ nals \in Seq(Nals) /\ Len(nals) = Len(u) - (k - 1)
      /\ \A i \in 1 .. Len(nals) : nals[i] = u[(k - 1) + i]
  <2>1. CASE k <= Len(u)
    <3>1. \A i \in k .. Len(u) : u[i] \in Nals
      BY <1>1
    <3>2. /\ nals \in Seq(Nals) /\ Len(nals) = Len(u) - k + 1
          /\ \A i \in 1 .. (Len(u) - k + 1) : nals[i] = u[k + i - 1]
      BY <1>1, <2>1, SubSeqProperties
    <3> QED
      BY <1>1, <3>2
  <2>2. CASE k = Len(u) + 1
    <3>1. nals = <<>>
      BY <1>1, <2>2, SubSeqEmpty
    <3> QED
      BY <1>1, <2>2, <3>1
  <2> QED
    BY <1>1, <2>1, <2>2
<1>3. ASSUME NEW i \in 1 .. Len(nals)
      PROVE  Genuine(nals[i], delimited) /\ nals[i].unit = 1
  <2>1. (k - 1) + i \in 1 .. Len(u)
    BY <1>1, <1>2
  <2> QED
    BY <1>2, <2>1 DEF Chained
<1>4. ASSUME NEW i \in 1 .. Len(nals) - 1
      PROVE  Follows(nals[i], nals[i + 1], delimited)
  <2>1. /\ (k - 1) + i \in 1 .. Len(u) - 1 /\ ((k - 1) + i) + 1 = (k - 1) + (i + 1)
        /\ i \in 1 .. Len(nals) /\ i + 1 \in 1 .. Len(nals)
    BY <1>1, <1>2
  <2>2. nals[i] = u[(k - 1) + i] /\ nals[i + 1] = u[((k - 1) + i) + 1]
    BY <1>2, <2>1
  <2> QED
    BY <2>1, <2>2 DEF Chained
<1>5. nals # <<>> => nals[Len(nals)] = u[Len(u)] /\ Len(nals) \in 1 .. Len(nals)
  <2>1. nals # <<>> => Len(nals) \in Nat \ {0}
    BY <1>2, EmptySeq, LenProperties
  <2>2. ASSUME nals # <<>> PROVE (k - 1) + Len(nals) = Len(u) /\ Len(nals) \in 1 .. Len(nals)
    BY <1>1, <1>2, <2>1, <2>2
  <2> QED
    BY <1>2, <2>2
<1> QED
  BY <1>1, <1>2, <1>3, <1>4, <1>5 DEF Coming, Capture, Chained

\* The next access unit continues it.
LEMMA Continues ==
  ASSUME Coming, NextUnit
  PROVE  Coming' /\ (nals # <<>> => nals' # <<>> /\ nals'[1] = nals[1])
<1>1. PICK u \in AccessUnits(unit + 1, delimited) : nals' = nals \o u
  BY DEF NextUnit
<1>2. /\ Chained(u, unit + 1, delimited)
      /\ u[1].type \in IF delimited THEN {"aud"} ELSE Then("aud", u[1].idr)
      /\ u[1].part = IF u[1].type = "slice" THEN 1 ELSE 0
  BY AccessUnitChained DEF Coming
<1>3. /\ nals \in Seq(Nals) /\ u \in Seq(Nals) /\ Len(u) \in Nat \ {0} /\ unit \in Nat
      /\ Len(nals) \in 0 .. 1 /\ (nals = <<>> <=> Len(nals) = 0)
  <2>1. nals \in Seq(Nals) /\ unit \in Nat /\ Len(nals) <= 1 /\ u \in Seq(Nals)
    BY <1>2 DEF Coming, NextUnit, Chained
  <2>2. Len(nals) \in Nat /\ (nals = <<>> <=> Len(nals) = 0)
    BY <2>1, EmptySeq, LenProperties
  <2>3. Len(u) \in Nat \ {0}
    BY <1>2 DEF Chained
  <2>4. Len(nals) \in 0 .. 1
    <3>1. \A k \in Nat : k <= 1 => k \in 0 .. 1
      OBVIOUS
    <3> QED
      BY <2>1, <2>2, <3>1, Zenon
  <2> QED
    BY <2>1, <2>2, <2>3, <2>4, Zenon
<1>0. unit' = unit + 1 /\ delimited' = delimited /\ annexB' = annexB
  BY DEF NextUnit, parserVars
<1>4. /\ nals' \in Seq(Nals) /\ Len(nals') = Len(nals) + Len(u)
      /\ \A i \in 1 .. Len(nals) : nals'[i] = nals[i]
      /\ \A i \in 1 .. Len(u) : nals'[Len(nals) + i] = u[i]
  BY <1>1, <1>3, ConcatAt
<1>5. nals' # <<>> /\ (nals # <<>> => nals'[1] = nals[1])
  <2>1. Len(nals') # 0
    BY <1>3, <1>4
  <2>2. nals' # <<>>
    BY <1>4, <2>1, EmptySeq
  <2>3. nals # <<>> => 1 \in 1 .. Len(nals)
    BY <1>3
  <2> QED
    BY <1>4, <2>2, <2>3
<1>6. ASSUME NEW i \in 1 .. Len(u)
      PROVE  Genuine(u[i], delimited) /\ u[i].unit = unit'
  BY <1>0, <1>2 DEF Chained
<1>7. nals'[Len(nals')] = u[Len(u)] /\ Len(u) \in 1 .. Len(u)
  BY <1>3, <1>4
<1>8. CASE nals = <<>>
  <2>1. /\ Len(nals') = Len(u) /\ \A i \in 1 .. Len(u) : nals'[i] = u[i]
    BY <1>3, <1>4, <1>8
  <2>2. \A i \in 1 .. Len(u) - 1 : Follows(nals'[i], nals'[i + 1], delimited)
    BY <1>2, <1>3, <2>1 DEF Chained
  <2> QED
    BY <1>0, <1>2, <1>3, <1>4, <1>5, <1>6, <1>7, <1>8, <2>1, <2>2 DEF Coming, Capture, Chained
<1>9. CASE nals # <<>>
  <2>1. Len(nals) = 1 /\ nals'[1] = nals[1] /\ 1 \in 1 .. Len(nals)
    BY <1>3, <1>5, <1>9
  <2>2. /\ Genuine(nals[1], delimited) /\ nals[1].type = "slice" /\ nals[1].unit = unit
        /\ nals[1].part = nals[1].of
    BY <1>9, <2>1 DEF Coming, Capture
  <2>3. \A i \in 2 .. Len(nals') : i - 1 \in 1 .. Len(u) /\ nals'[i] = u[i - 1]
    BY <1>3, <1>4, <2>1
  <2>4. Follows(nals'[1], nals'[2], delimited)
    <3>1. nals'[2] = u[1] /\ u[1].unit = unit + 1
      <4>1. 2 \in 2 .. Len(nals') /\ 2 - 1 = 1 /\ 1 \in 1 .. Len(u)
        BY <1>3, <1>4, <2>1
      <4>2. nals'[2] = u[2 - 1]
        BY <2>3, <4>1
      <4> QED
        BY <1>0, <1>6, <4>1, <4>2
    <3> QED
      BY <1>2, <2>1, <2>2, <3>1 DEF Follows
  <2>5. ASSUME NEW i \in 1 .. Len(nals') - 1
        PROVE  Follows(nals'[i], nals'[i + 1], delimited)
    <3>1. CASE i = 1
      BY <2>4, <3>1
    <3>2. CASE i # 1
      <4>1. /\ i - 1 \in 1 .. Len(u) - 1 /\ (i - 1) + 1 = i
            /\ i \in 2 .. Len(nals') /\ i + 1 \in 2 .. Len(nals') /\ (i + 1) - 1 = i
        BY <1>3, <1>4, <2>1, <3>2
      <4>2. nals'[i] = u[i - 1] /\ nals'[i + 1] = u[(i - 1) + 1]
        BY <2>3, <4>1
      <4> QED
        BY <1>2, <4>1, <4>2 DEF Chained
    <3> QED
      BY <3>1, <3>2
  <2>6. ASSUME NEW i \in 2 .. Len(nals')
        PROVE  Genuine(nals'[i], delimited) /\ nals'[i].unit = unit'
    BY <1>6, <2>3
  <2>7. ASSUME NEW i \in 1 .. Len(nals')
        PROVE  Genuine(nals'[i], delimited) /\ nals'[i].unit \in {unit' - 1, unit'}
    <3>1. CASE i = 1
      BY <1>0, <1>3, <2>1, <2>2, <3>1
    <3>2. CASE i # 1
      <4>1. i \in 2 .. Len(nals')
        BY <1>3, <1>4, <3>2
      <4> QED
        BY <2>6, <4>1
    <3> QED
      BY <3>1, <3>2
  <2> QED
    BY <1>0, <1>2, <1>3, <1>4, <1>5, <1>6, <1>7, <2>5, <2>6, <2>7 DEF Coming, Capture, Chained
<1> QED
  BY <1>8, <1>9

-----------------------------------------------------------------------------
(* The frames                                                              *)

\* What flushVCL makes of the access unit that has been collected.
Keyed == pendingKeyframe /\ sps # NoSet /\ pps # NoSet
Codec == [kind |-> "codec", sps |-> sps, pps |-> pps]
Picture == [kind |-> "video", key |-> pendingKeyframe, slices |-> vcl]

\* What flushVCL sends is nothing, the picture, or a codec frame and the picture.
LEMMA FlushedIs ==
  ASSUME TypeOK
  PROVE  /\ Flushed \in Seq(Frame) /\ Picture \in Frame /\ (Keyed => Codec \in Frame)
         /\ IF vcl = <<>> \/ ~Decodable
            THEN Flushed = <<>>
            ELSE IF Keyed
                 THEN Len(Flushed) = 2 /\ Flushed[1] = Codec /\ Flushed[2] = Picture
                 ELSE streamPrimed /\ Len(Flushed) = 1 /\ Flushed[1] = Picture
         /\ (\E i \in DOMAIN Flushed : Flushed[i].kind = "codec") <=> vcl # <<>> /\ Keyed
<1>1. Picture \in Frame /\ (Keyed => Codec \in Frame)
  BY SetAssumption DEF TypeOK, Frame, Picture, Codec, Keyed
<1>2. Picture.kind = "video" /\ Codec.kind = "codec"
  BY DEF Picture, Codec
<1>3. CASE vcl = <<>> \/ ~Decodable
  <2>1. Flushed = <<>> /\ ~(vcl # <<>> /\ Keyed)
    BY <1>3 DEF Flushed, Decodable, Keyed
  <2> QED
    BY <1>1, <1>3, <2>1
<1>4. CASE vcl # <<>> /\ Decodable /\ ~Keyed
  <2>1. Flushed = <<>> \o <<Picture>> /\ streamPrimed
    BY <1>4 DEF Flushed, Decodable, Keyed, Picture
  <2>2. Flushed \in Seq(Frame) /\ Len(Flushed) = 1 /\ Flushed[1] = Picture
    BY <1>1, <2>1
  <2> QED
    BY <1>1, <1>2, <1>4, <2>1, <2>2
<1>5. CASE vcl # <<>> /\ Decodable /\ Keyed
  <2>1. Flushed = <<Codec>> \o <<Picture>>
    BY <1>5 DEF Flushed, Decodable, Keyed, Picture, Codec
  <2>2. Flushed \in Seq(Frame) /\ Len(Flushed) = 2 /\ Flushed[1] = Codec /\ Flushed[2] = Picture
    BY <1>1, <1>5, <2>1
  <2> QED
    BY <1>1, <1>2, <1>5, <2>2
<1> QED
  BY <1>3, <1>4, <1>5

\* What is sent later does not change which of the frames before count.
LEMMA Grows ==
  ASSUME sent \in Seq(Frame), NEW w \in Seq(Frame), sent' = sent \o w
  PROVE  /\ sent' \in Seq(Frame) /\ Len(sent') = Len(sent) + Len(w)
         /\ Len(sent) \in Nat /\ Len(w) \in Nat
         /\ \A i \in 1 .. Len(sent) : /\ sent'[i] = sent[i]
                                      /\ i \in Frames' <=> i \in Frames
                                      /\ i \in Video' <=> i \in Video
         /\ \A i \in 1 .. Len(w) : sent'[Len(sent) + i] = w[i]
         /\ Frames \subseteq 1 .. Len(sent) /\ Frames' \subseteq 1 .. Len(sent')
         /\ Video \subseteq Frames /\ Video' \subseteq Frames'
<1>1. /\ sent' \in Seq(Frame) /\ Len(sent') = Len(sent) + Len(w)
      /\ Len(sent) \in Nat /\ Len(w) \in Nat
      /\ \A i \in 1 .. Len(sent) : sent'[i] = sent[i]
      /\ \A i \in 1 .. Len(w) : sent'[Len(sent) + i] = w[i]
  BY ConcatAt
<1>2. Frames \subseteq 1 .. Len(sent) /\ Frames' \subseteq 1 .. Len(sent')
  BY <1>1 DEF Frames
<1>3. Video \subseteq Frames /\ Video' \subseteq Frames'
  BY DEF Video
<1>4. \A j \in 1 .. Len(sent) : Real(j)' <=> Real(j)
  BY <1>1 DEF Real
<1>5. ASSUME NEW i \in 1 .. Len(sent)
      PROVE  i \in Frames' <=> i \in Frames
  <2>1. i \in DOMAIN sent /\ i \in DOMAIN sent' /\ 1 .. i \subseteq 1 .. Len(sent)
    BY <1>1
  <2> QED
    BY <1>4, <2>1 DEF Frames
<1>6. \A i \in 1 .. Len(sent) : i \in Video' <=> i \in Video
  BY <1>1, <1>5 DEF Video
<1> QED
  BY <1>1, <1>2, <1>3, <1>5, <1>6

\* The access unit that is collected when StreamFrames is in step with the capture.
Ready ==
  /\ sps \in Sets /\ vcl # <<>> /\ vcl[1].set \in Sets
  /\ \A i \in 1 .. Len(vcl) : SameUnit(vcl[i], vcl[1]) /\ vcl[i].part = i
  /\ pendingKeyframe = vcl[1].idr
  /\ IF vcl[1].idr THEN sps = vcl[1].set /\ pps = vcl[1].set ELSE Frames # {}

\* What has been sent is in order.
Sound == CodecFits /\ Joined

\* It passes the gate, behind a codec frame if it is a keyframe.
LEMMA ReadyPasses ==
  ASSUME TypeOK, Ready, Gated, running
  PROVE  /\ Decodable /\ (Keyed <=> vcl[1].idr) /\ Flushed \in Seq(Frame) /\ Picture \in Frame
         /\ vcl[1].idr => /\ Codec.sps = vcl[1].set /\ Codec.pps = vcl[1].set
                          /\ Len(Flushed) = 2 /\ Flushed[1] = Codec /\ Flushed[2] = Picture
         /\ ~vcl[1].idr => /\ streamPrimed /\ Frames # {}
                           /\ Len(Flushed) = 1 /\ Flushed[1] = Picture
<1>1. Keyed <=> vcl[1].idr
  BY SetAssumption DEF Ready, Keyed
<1>2. ~vcl[1].idr => streamPrimed /\ Frames # {}
  BY DEF Ready, Gated
<1>3. Decodable
  BY <1>1, <1>2 DEF Decodable, Keyed
<1>4. vcl[1].idr => Codec.sps = vcl[1].set /\ Codec.pps = vcl[1].set
  BY DEF Ready, Codec
<1>5. vcl # <<>>
  BY DEF Ready
<1> QED
  BY <1>1, <1>2, <1>3, <1>4, <1>5, FlushedIs

\* Which frames count once it has been sent.
LEMMA NewFrames ==
  ASSUME TypeOK, Ready, Gated, running, sent' = sent \o Flushed, NEW n, n = Len(sent), NEW m,
         m = Len(sent')
  PROVE  /\ n \in Nat /\ m \in Nat /\ sent'[m] = Picture /\ m \notin 1 .. n
         /\ Video' = Video \cup {m}
         /\ IF vcl[1].idr THEN m = n + 2 /\ Frames' = Frames \cup {n + 1, m} /\ sent'[n + 1] = Codec
                          ELSE m = n + 1 /\ Frames' = Frames \cup {m} /\ Frames # {}
<1>1. /\ Flushed \in Seq(Frame) /\ sent \in Seq(Frame) /\ Picture.kind = "video"
      /\ Codec.kind = "codec"
  BY FlushedIs DEF TypeOK, Picture, Codec
<1>2. /\ sent' \in Seq(Frame) /\ m = n + Len(Flushed) /\ n \in Nat /\ Len(Flushed) \in Nat
      /\ \A i \in 1 .. n : i \in Frames' <=> i \in Frames
      /\ \A i \in 1 .. n : i \in Video' <=> i \in Video
      /\ \A i \in 1 .. Len(Flushed) : sent'[n + i] = Flushed[i]
      /\ Frames \subseteq 1 .. n /\ Frames' \subseteq 1 .. m
      /\ Video \subseteq Frames /\ Video' \subseteq Frames'
  BY <1>1, Grows
<1>3. m \in 1 .. m => (m \in Video' <=> m \in Frames' /\ sent'[m].kind = "video")
  BY DEF Video
<1>4. CASE vcl[1].idr
  <2>1. m = n + 2 /\ sent'[n + 1] = Codec /\ sent'[n + 2] = Picture
    <3>1. Len(Flushed) = 2 /\ Flushed[1] = Codec /\ Flushed[2] = Picture
      BY <1>4, ReadyPasses
    <3>0. 1 \in 1 .. Len(Flushed) /\ 2 \in 1 .. Len(Flushed)
      BY <3>1
    <3>2. sent'[n + 1] = Flushed[1] /\ sent'[n + 2] = Flushed[2]
      BY <1>2, <3>0
    <3> QED
      BY <1>2, <3>1, <3>2
  <2>2. Real(n + 1)'
    BY <1>1, <1>4, <2>1, ReadyPasses DEF Ready, Real
  <2>3. n + 1 \in Frames' /\ m \in Frames'
    <3>1. DOMAIN sent' = 1 .. m
      BY <1>2
    <3> QED
      BY <1>2, <2>1, <2>2, <3>1 DEF Frames
  <2>4. n + 1 \notin Video' /\ m \in Video'
    BY <1>1, <1>2, <2>1, <2>3 DEF Video
  <2>5. 1 .. m = 1 .. n \cup {n + 1, m}
    BY <1>2, <2>1
  <2>6. Frames' = Frames \cup {n + 1, m} /\ Video' = Video \cup {m}
    BY <1>2, <2>3, <2>4, <2>5
  <2> QED
    BY <1>2, <1>4, <2>1, <2>6
<1>5. CASE ~vcl[1].idr
  <2>1. m = n + 1 /\ sent'[n + 1] = Picture /\ Frames # {}
    BY <1>2, <1>5, ReadyPasses
  <2>2. m \in Frames'
    <3>1. DOMAIN sent' = 1 .. m
      BY <1>2
    <3>2. PICK i \in Frames : TRUE
      BY <2>1
    <3>3. i \in Frames' /\ i \in 1 .. n
      BY <1>2, <3>2
    <3>4. PICK j \in 1 .. i : Real(j)'
      BY <3>3 DEF Frames
    <3>5. j \in 1 .. m /\ m \in 1 .. m
      BY <1>2, <2>1, <3>3, <3>4
    <3> QED
      BY <3>1, <3>4, <3>5 DEF Frames
  <2>3. m \in Video'
    BY <1>1, <2>1, <2>2 DEF Video
  <2>4. 1 .. m = 1 .. n \cup {m}
    BY <1>2, <2>1
  <2>5. Frames' = Frames \cup {m} /\ Video' = Video \cup {m}
    BY <1>2, <2>2, <2>3, <2>4
  <2> QED
    BY <1>2, <1>5, <2>1, <2>5
<1> QED
  BY <1>4, <1>5

\* What has been sent stays in order.
LEMMA SoundSent ==
  ASSUME TypeOK, Ready, Gated, running, WholeUnits, UpToDate, Sound, sent' = sent \o Flushed,
         NEW n, n = Len(sent), NEW m, m = Len(sent')
  PROVE  /\ Sound' /\ sent' \in Seq(Frame) /\ Frames' # {} /\ m \in Video'
         /\ sent'[m].slices = vcl
         /\ \A i \in Video' : i < m => Whole(i)'
<1>1. /\ n \in Nat /\ m \in Nat /\ sent'[m] = Picture /\ m \notin 1 .. n
      /\ Video' = Video \cup {m}
  BY NewFrames
<1>2. vcl[1].idr => m = n + 2 /\ Frames' = Frames \cup {n + 1, m} /\ sent'[n + 1] = Codec
  BY NewFrames
<1>3. ~vcl[1].idr => m = n + 1 /\ Frames' = Frames \cup {m} /\ Frames # {}
  BY NewFrames
<1>4. m > n
  BY <1>1, <1>2, <1>3
<1>5. /\ sent' \in Seq(Frame) /\ \A i \in 1 .. n : sent'[i] = sent[i]
      /\ Frames \subseteq 1 .. n /\ Video \subseteq Frames
  BY FlushedIs, Grows DEF TypeOK
<1>6. /\ Picture.kind = "video" /\ Picture.slices = vcl /\ Picture.key = vcl[1].idr
      /\ Codec.kind = "codec"
      /\ vcl[1].idr => Codec.sps = vcl[1].set /\ Codec.pps = vcl[1].set
  BY ReadyPasses DEF Picture, Codec, Ready
<1>7. Frames # {} => n \in Video /\ sent[n].kind = "video"
  BY DEF UpToDate, Video
<1>8. Frames # {} => UnitOf(n) + 1 = vcl[1].unit
  BY DEF UpToDate, Ready
<1>9. ASSUME NEW i \in Video
      PROVE  /\ sent'[i].key = sent'[i].slices[1].idr
             /\ sent'[i].key => /\ i > 1 /\ sent'[i - 1].kind = "codec"
                                /\ sent'[i - 1].sps = sent'[i].slices[1].set
                                /\ sent'[i - 1].pps = sent'[i].slices[1].set
  <2>1. i \in 1 .. n /\ sent'[i] = sent[i] /\ (i > 1 => sent'[i - 1] = sent[i - 1])
    BY <1>1, <1>5
  <2> QED
    BY <2>1 DEF Sound, CodecFits
<1>10. ASSUME NEW i, i = m
       PROVE  /\ sent'[i].key = sent'[i].slices[1].idr
              /\ sent'[i].key => /\ i > 1 /\ sent'[i - 1].kind = "codec"
                                 /\ sent'[i - 1].sps = sent'[i].slices[1].set
                                 /\ sent'[i - 1].pps = sent'[i].slices[1].set
  <2>1. vcl[1].idr => i > 1 /\ sent'[i - 1] = Codec
    BY <1>1, <1>2, <1>10
  <2>2. sent'[i] = Picture
    BY <1>1, <1>10
  <2> QED
    BY <1>6, <2>1, <2>2
<1>11. ASSUME NEW i \in Frames', sent'[i].kind = "codec", i < m
      PROVE  i + 1 \in Video' /\ sent'[i + 1].key
  <2>1. CASE i \in Frames
    <3>1. i \in 1 .. n /\ i # n /\ i + 1 \in 1 .. n /\ sent[i].kind = "codec"
      <4>1. i \in 1 .. n /\ sent[i].kind = "codec"
        BY <1>5, <1>11, <2>1
      <4>2. i # n
        BY <1>7, <2>1, <4>1
      <4> QED
        BY <1>1, <4>1, <4>2
    <3>2. i + 1 \in Video /\ sent[i + 1].key
      BY <2>1, <3>1 DEF Sound, CodecFits
    <3> QED
      BY <1>1, <1>5, <3>1, <3>2
  <2>2. CASE i \notin Frames
    <3>1. vcl[1].idr /\ i + 1 = m
      BY <1>1, <1>2, <1>3, <1>11, <2>2
    <3> QED
      BY <1>1, <1>6, <3>1
  <2> QED
    BY <2>1, <2>2
<1>12. CodecFits'
  <2>1. ASSUME NEW i \in Video'
        PROVE  /\ sent'[i].key = sent'[i].slices[1].idr
               /\ sent'[i].key => /\ i > 1 /\ sent'[i - 1].kind = "codec"
                                  /\ sent'[i - 1].sps = sent'[i].slices[1].set
                                  /\ sent'[i - 1].pps = sent'[i].slices[1].set
    <3>1. CASE i \in Video
      BY <1>9, <3>1
    <3>2. CASE i = m
      BY <1>10, <3>2
    <3> QED
      BY <1>1, <3>1, <3>2
  <2> QED
    BY <1>11, <2>1 DEF CodecFits
<1>13. ASSUME NEW i \in Video'
       PROVE  /\ sent'[i].slices # <<>>
              /\ i - 1 \in Video' => UnitOf(i)' = UnitOf(i - 1)' + 1
              /\ i - 1 \notin Video' /\ i - 2 \in Video' => UnitOf(i)' = UnitOf(i - 2)' + 1
  <2>1. CASE i \in Video
    <3>1. i \in 1 .. n /\ sent'[i] = sent[i] /\ i - 1 # m /\ i - 2 # m
      <4>1. i \in 1 .. n /\ sent'[i] = sent[i]
        BY <1>5, <2>1
      <4>2. i - 1 < m /\ i - 2 < m
        BY <1>1, <1>4, <4>1
      <4> QED
        BY <1>1, <4>1, <4>2
    <3>2. \A j \in Video : sent'[j] = sent[j]
      BY <1>5
    <3> QED
      BY <1>1, <2>1, <3>1, <3>2 DEF Sound, Joined, UnitOf
  <2>2. CASE i = m
    <3>1. sent'[i].slices # <<>> /\ UnitOf(i)' = vcl[1].unit
      BY <1>1, <1>6, <2>2 DEF Ready, UnitOf
    <3>2. CASE vcl[1].idr
      <4>1. m - 1 = n + 1 /\ m - 2 = n /\ m - 1 \notin Video'
        BY <1>1, <1>5, <1>2, <3>2
      <4>2. n \in Video' => n \in Video /\ UnitOf(n)' = UnitOf(n) /\ Frames # {}
        BY <1>1, <1>5, <4>1 DEF UnitOf
      <4> QED
        BY <1>8, <2>2, <3>1, <4>1, <4>2
    <3>3. CASE ~vcl[1].idr
      <4>1. m - 1 = n /\ n \in Video /\ UnitOf(n)' = UnitOf(n)
        BY <1>1, <1>5, <1>7, <1>3, <3>3 DEF UnitOf
      <4> QED
        BY <1>1, <1>8, <1>3, <2>2, <3>1, <3>3, <4>1
    <3> QED
      BY <3>2, <3>3
  <2> QED
    BY <1>1, <2>1, <2>2
<1>14. ASSUME NEW i \in Video', i < m
       PROVE  Whole(i)'
  <2>1. i # m
    BY <1>1, <1>14
  <2>2. i \in Video /\ sent'[i] = sent[i]
    BY <1>1, <1>5, <2>1
  <2> QED
    BY <2>2 DEF WholeUnits, Whole
<1>15. Joined'
  BY <1>13 DEF Joined
<1> QED
  BY <1>1, <1>5, <1>6, <1>2, <1>3, <1>12, <1>14, <1>15 DEF Sound

\* What is sent of an access unit, all of it or what goes out before a send fails.
Part(w) == w \in Seq(Frame) /\ Len(w) <= Len(Flushed) /\ \A i \in 1 .. Len(w) : w[i] = Flushed[i]

\* What a flush sends and what goes out before a send fails are such parts.
LEMMA Parts ==
  ASSUME TypeOK
  PROVE  /\ Part(Flushed) /\ Part(<<>>)
         /\ \A k \in 0 .. Len(Flushed) - 1 : /\ Part(SubSeq(Flushed, 1, k))
                                             /\ Len(SubSeq(Flushed, 1, k)) = k
<1>1. Flushed \in Seq(Frame) /\ Len(Flushed) \in Nat
  BY FlushedIs, LenProperties
<1>2. \A i \in 1 .. Len(Flushed) : Flushed[i] \in Frame
  BY <1>1, ElementOfSeq
<1>3. Part(Flushed)
  BY <1>1 DEF Part
<1>4. Part(<<>>) /\ <<>> \in Seq(Frame) /\ Len(<<>>) = 0
  BY <1>1 DEF Part
<1>5. ASSUME NEW k \in 0 .. Len(Flushed) - 1
      PROVE  Part(SubSeq(Flushed, 1, k)) /\ Len(SubSeq(Flushed, 1, k)) = k
  <2>1. CASE k = 0
    <3>1. SubSeq(Flushed, 1, k) = <<>>
      BY <1>1, <2>1, SubSeqEmpty
    <3> QED
      BY <1>4, <2>1, <3>1
  <2>2. CASE k # 0
    <3>1. 1 \in Nat /\ k \in Nat /\ 1 <= k /\ k <= Len(Flushed)
            /\ \A i \in 1 .. k : Flushed[i] \in Frame
      BY <1>1, <1>2, <2>2
    <3>2. /\ SubSeq(Flushed, 1, k) \in Seq(Frame) /\ Len(SubSeq(Flushed, 1, k)) = k
          /\ \A i \in 1 .. k : SubSeq(Flushed, 1, k)[i] = Flushed[i]
      BY <1>1, <3>1, SubSeqProperties
    <3> QED
      BY <3>1, <3>2 DEF Part
  <2> QED
    BY <2>1, <2>2
<1> QED
  BY <1>3, <1>4, <1>5

\* Whatever the state of the gate: a decoder can start with what is sent first, and
\* what the parser has made up opens no more than the gate.
LEMMA PartSent ==
  ASSUME TypeOK, StartsDecodable, Gated, NEW w, Part(w), sent' = sent \o w,
         misread' = 0 => misread = 0
  PROVE  /\ sent' \in Seq(Frame) /\ StartsDecodable'
         /\ sent # <<>> \/ w # <<>> => sent' # <<>>
         /\ running /\ sps \notin Sets => Frames = {} /\ Frames' = {}
<1>1. w \in Seq(Frame) /\ sent \in Seq(Frame)
  BY DEF Part, TypeOK
<1>2. /\ sent' \in Seq(Frame) /\ Len(sent') = Len(sent) + Len(w)
      /\ Len(sent) \in Nat /\ Len(w) \in Nat
      /\ \A i \in 1 .. Len(sent) : sent'[i] = sent[i] /\ (i \in Frames' <=> i \in Frames)
      /\ \A i \in 1 .. Len(w) : sent'[Len(sent) + i] = w[i]
      /\ Frames' \subseteq 1 .. Len(sent')
  BY <1>1, Grows
<1>3. /\ sent = <<>> <=> Len(sent) = 0
      /\ w = <<>> <=> Len(w) = 0
      /\ sent' = <<>> <=> Len(sent') = 0
  BY <1>1, <1>2, EmptySeq
<1>4. sent # <<>> \/ w # <<>> => sent' # <<>>
  BY <1>2, <1>3
<1>5. ASSUME NEW i \in 1 .. Len(w)
      PROVE  /\ w[i].kind = "codec" => w[i] = Codec /\ w[i].sps = sps /\ w[i].pps = pps
             /\ i = 1 /\ ~streamPrimed => w[i] = Codec /\ Codec.kind = "codec"
                                          /\ sps # NoSet /\ pps # NoSet
  <2>1. Codec.sps = sps /\ Codec.pps = pps /\ Codec.kind = "codec" /\ Picture.kind = "video"
    BY DEF Codec, Picture
  <2>2. w[i] = Flushed[i] /\ i \in 1 .. Len(Flushed) /\ Len(Flushed) \in Nat /\ Flushed # <<>>
    BY <1>2, FlushedIs, LenProperties DEF Part
  <2>3. vcl # <<>> /\ Decodable
    BY <2>2, FlushedIs
  <2>4. CASE Keyed
    <3>1. Len(Flushed) = 2 /\ Flushed[1] = Codec /\ Flushed[2] = Picture
      BY <2>3, <2>4, FlushedIs
    <3> QED
      BY <2>1, <2>2, <2>4, <3>1 DEF Keyed
  <2>5. CASE ~Keyed
    <3>1. Len(Flushed) = 1 /\ Flushed[1] = Picture /\ streamPrimed
      BY <2>3, <2>5, FlushedIs
    <3> QED
      BY <2>1, <2>2, <3>1
  <2> QED
    BY <2>4, <2>5
<1>6. StartsDecodable'
  <2>1. CASE sent # <<>>
    <3>1. 1 \in 1 .. Len(sent)
      BY <1>2, <1>3, <2>1
    <3>2. sent'[1] = sent[1] /\ (Real(1) => Real(1)')
      BY <1>2, <3>1 DEF Real
    <3> QED
      BY <2>1, <3>2 DEF StartsDecodable
  <2>2. CASE sent = <<>> /\ w # <<>>
    <3>1. 1 \in 1 .. Len(w) /\ Len(sent) = 0
      BY <1>2, <1>3, <2>2
    <3>2. sent'[1] = w[1]
      <4>1. sent'[Len(sent) + 1] = w[1]
        BY <1>2, <3>1
      <4> QED
        BY <3>1, <4>1
    <3>3. ~streamPrimed
      BY <2>2 DEF Gated
    <3>4. w[1] = Codec /\ Codec.kind = "codec" /\ w[1].sps = sps /\ w[1].pps = pps
          /\ sps # NoSet /\ pps # NoSet
      BY <1>5, <3>1, <3>3
    <3>5. misread = 0 => sps \in Sets /\ pps \in Sets
      BY <3>4 DEF TypeOK, Gated
    <3> QED
      BY <3>2, <3>4, <3>5 DEF StartsDecodable, Real
  <2>3. CASE sent = <<>> /\ w = <<>>
    <3>1. sent' = <<>>
      BY <1>2, <1>3, <2>3
    <3> QED
      BY <3>1 DEF StartsDecodable
  <2> QED
    BY <2>1, <2>2, <2>3
<1>7. ASSUME running, sps \notin Sets
      PROVE  Frames = {} /\ Frames' = {}
  <2>1. Frames = {}
    BY <1>7 DEF Gated
  <2>2. ASSUME NEW i \in Frames' PROVE FALSE
    <3>1. PICK j \in 1 .. i : Real(j)'
      BY <2>2 DEF Frames
    <3>2. i \in 1 .. Len(sent') /\ j \in 1 .. Len(sent')
      BY <1>2, <2>2, <3>1
    <3>3. CASE j \in 1 .. Len(sent)
      <4>1. Real(j) /\ j \in DOMAIN sent /\ j \in 1 .. j
        BY <1>1, <1>2, <3>1, <3>3 DEF Real
      <4>2. j \in Frames
        BY <4>1 DEF Frames
      <4> QED
        BY <2>1, <4>2
    <3>4. CASE j \notin 1 .. Len(sent)
      <4> DEFINE k == j - Len(sent)
      <4>1. k \in 1 .. Len(w) /\ j = Len(sent) + k
        BY <1>2, <3>2, <3>4
      <4> HIDE DEF k
      <4>2. sent'[j] = w[k]
        BY <1>2, <4>1
      <4>3. w[k].kind = "codec" /\ w[k].sps \in Sets
        BY <3>1, <4>2 DEF Real
      <4> QED
        BY <1>5, <1>7, <4>1, <4>3
    <3> QED
      BY <3>3, <3>4
  <2> QED
    BY <2>1, <2>2
<1> QED
  BY <1>2, <1>4, <1>6, <1>7

\* Where nothing is sent, nothing changes.
LEMMA Unsent ==
  ASSUME Sound, sent' = sent
  PROVE  /\ Sound' /\ Frames' = Frames /\ Video' = Video
         /\ \A i \in Video : UnitOf(i)' = UnitOf(i) /\ (Whole(i)' <=> Whole(i))
<1>1. \A i : Real(i)' <=> Real(i)
  BY DEF Real
<1>2. Frames' = Frames
  BY <1>1 DEF Frames
<1>3. Video' = Video
  BY <1>2 DEF Video
<1>4. \A i : UnitOf(i)' = UnitOf(i) /\ (Whole(i)' <=> Whole(i))
  BY DEF UnitOf, Whole
<1>5. CodecFits'
  BY <1>2, <1>3 DEF Sound, CodecFits
<1>6. Joined'
  BY <1>3, <1>4 DEF Sound, Joined
<1> QED
  BY <1>2, <1>3, <1>4, <1>5, <1>6 DEF Sound

-----------------------------------------------------------------------------
(* The steps of StreamFrames                                               *)

\* In step with the capture, what has been collected can be sent.
LEMMA Collecting ==
  ASSUME IInv, running, sps \in Sets
  PROVE  /\ annexB /\ Abreast(nals[1])
         /\ vcl # <<>> => Ready /\ Collected(nals[1]) /\ ~Cleared(nals[1])
<1>1. annexB /\ Abreast(nals[1])
  BY DEF IInv, Synchronised, Abreast
<1>2. ASSUME vcl # <<>>
      PROVE  Collected(nals[1]) /\ ~Cleared(nals[1])
  BY <1>1, <1>2 DEF Abreast
<1>3. ASSUME vcl # <<>>
      PROVE  Ready
  BY <1>1, <1>2, <1>3 DEF Abreast, Collected, Ready
<1> QED
  BY <1>1, <1>2, <1>3

\* What flushVCL does, in and out of step.
LEMMA Flushes ==
  ASSUME IInv, running, NEW more \in Seq(Nals), NEW key \in BOOLEAN, Flush(more, key),
         misread' = 0 => misread = 0, NEW m, m = Len(sent')
  PROVE  /\ sent' \in Seq(Frame) /\ StartsDecodable' /\ vcl' = more
         /\ (streamPrimed' => sent' # <<>>) /\ (streamPrimed => streamPrimed')
         /\ sps \notin Sets => Frames' = {}
         /\ sps \in Sets /\ vcl = <<>> => sent' = sent
         /\ sps \in Sets /\ vcl # <<>> =>
              /\ Frames' # {} /\ m \in Video' /\ streamPrimed'
              /\ UnitOf(m)' = vcl[1].unit
              /\ Sound' /\ \A i \in Video' : i < m => Whole(i)'
              /\ Len(vcl) = vcl[1].of => Whole(m)'
<1>1. /\ TypeOK /\ StartsDecodable /\ Gated /\ WholeUnits /\ UpToDate /\ Sound
  BY DEF IInv, Sound
<1>2. /\ sent' = sent \o Flushed /\ vcl' = more
      /\ streamPrimed' <=> streamPrimed \/ \E i \in DOMAIN Flushed : Flushed[i].kind = "codec"
  BY <1>1 DEF Flush, TypeOK
<1>3. /\ sent' \in Seq(Frame) /\ StartsDecodable'
      /\ sent # <<>> \/ Flushed # <<>> => sent' # <<>>
      /\ sps \notin Sets => Frames' = {}
  <2>1. Part(Flushed)
    BY <1>1, Parts
  <2>2. PICK w : w = Flushed
    OBVIOUS
  <2>3. Part(w) /\ sent' = sent \o w
    BY <1>2, <2>1, <2>2
  <2>4. /\ sent' \in Seq(Frame) /\ StartsDecodable'
        /\ sent # <<>> \/ w # <<>> => sent' # <<>>
        /\ running /\ sps \notin Sets => Frames = {} /\ Frames' = {}
    BY <1>1, <2>3, PartSent
  <2> QED
    BY <2>2, <2>4
<1>4. streamPrimed' => sent' # <<>>
  <2>1. CASE streamPrimed
    BY <1>1, <1>3, <2>1 DEF Gated
  <2>2. CASE ~streamPrimed
    <3>1. ASSUME streamPrimed' PROVE Flushed # <<>>
      BY <1>2, <2>2, <3>1
    <3> QED
      BY <1>3, <3>1
  <2> QED
    BY <2>1, <2>2
<1>5. vcl = <<>> => sent' = sent
  <2>1. vcl = <<>> => Flushed = <<>>
    BY <1>1, FlushedIs
  <2> QED
    BY <1>1, <1>2, <2>1, ConcatEmptySeq DEF TypeOK
<1>6. ASSUME sps \in Sets, vcl # <<>>
      PROVE  /\ Frames' # {} /\ m \in Video' /\ streamPrimed'
             /\ UnitOf(m)' = vcl[1].unit
             /\ Sound' /\ \A i \in Video' : i < m => Whole(i)'
             /\ Len(vcl) = vcl[1].of => Whole(m)'
  <2>1. Ready
    BY <1>6, Collecting
  <2>2. /\ Sound' /\ Frames' # {} /\ m \in Video' /\ sent'[m].slices = vcl
        /\ \A i \in Video' : i < m => Whole(i)'
    BY <1>1, <1>2, <2>1, SoundSent
  <2>3. UnitOf(m)' = vcl[1].unit
    BY <2>2 DEF UnitOf
  <2>4. Len(vcl) = vcl[1].of => Whole(m)'
    <3>1. \A i \in 1 .. Len(vcl) : vcl[i].part = i /\ vcl[i].unit = vcl[1].unit
      BY <2>1 DEF Ready, SameUnit
    <3>2. DOMAIN vcl = 1 .. Len(vcl)
      BY <1>1 DEF TypeOK
    <3> QED
      BY <2>2, <3>1, <3>2 DEF Whole
  <2>5. streamPrimed'
    <3>1. CASE vcl[1].idr
      <4>1. Keyed
        BY <1>1, <2>1, <3>1, ReadyPasses
      <4> QED
        BY <1>1, <1>2, <1>6, <4>1, FlushedIs
    <3>2. CASE ~vcl[1].idr
      BY <1>1, <1>2, <2>1, <3>2, ReadyPasses
    <3> QED
      BY <3>1, <3>2
  <2> QED
    BY <2>2, <2>3, <2>4, <2>5
<1>7. streamPrimed => streamPrimed'
  BY <1>2
<1> QED
  BY <1>2, <1>3, <1>4, <1>5, <1>6, <1>7

\* What the parser gives.
LEMMA ParsedIs ==
  ASSUME TypeOK, NEW type, NEW nal \in Parsed(type)
  PROVE  /\ nal \in Nals /\ nal.type = type
         /\ annexB => Len(nals) > 1 /\ nal = nals[1]
         /\ ~annexB => misread < MisreadMax
<1>1. nal.type = type
  BY DEF Parsed
<1>2. CASE annexB
  <2>1. Len(nals) > 1 /\ nal = nals[1]
    BY <1>2 DEF Parsed
  <2>2. nals \in Seq(Nals) /\ Len(nals) \in Nat /\ 1 \in 1 .. Len(nals)
    BY <2>1, LenProperties DEF TypeOK
  <2> QED
    BY <1>1, <1>2, <2>1, <2>2, ElementOfSeq
<1>3. CASE ~annexB
  <2>1. misread < MisreadMax /\ nal \in Misreads
    BY <1>3 DEF Parsed
  <2>2. Misreads \subseteq Nals
    <3>1. \A t \in {"aud", "sps", "pps", "sei"} : Nal(t, 0, FALSE, Noise, 0, 2) \in Nals
      BY DEF Nal, Nals
    <3>2. \A idr \in BOOLEAN : Nal("slice", 0, idr, Noise, 1, 2) \in Nals
      BY DEF Nal, Nals
    <3> QED
      BY <3>1, <3>2 DEF Misreads
  <2> QED
    BY <1>1, <1>3, <2>1, <2>2
<1> QED
  BY <1>2, <1>3

\* NAL units x and y, of which y comes next behind x.
LEMMA Given ==
  ASSUME IInv, running, Push, annexB, Len(nals) > 1, NEW x, x = nals[1], NEW y, y = nals'[1]
  PROVE  /\ Coming' /\ annexB' /\ (delimited' <=> delimited) /\ misread' = misread
         /\ x \in Nals /\ Genuine(x, delimited) /\ x.unit \in {unit - 1, unit}
         /\ y \in Nals /\ Genuine(y, delimited) /\ Follows(x, y, delimited)
<1>1. Coming /\ delimited \in BOOLEAN /\ Len(nals) \in Nat /\ nals # <<>>
  BY EmptySeq, LenProperties DEF IInv, TypeOK, Coming, Capture
<1>2. nals' = Tail(nals) /\ delimited' = delimited /\ unit' = unit /\ annexB' = annexB
      /\ misread' = misread
  BY DEF Push
<1>3. Coming' /\ y = nals[2]
  BY <1>1, <1>2, TakeOne
<1>4. 1 \in 1 .. Len(nals) /\ 2 \in 1 .. Len(nals) /\ 1 \in 1 .. Len(nals) - 1 /\ 2 = 1 + 1
  BY <1>1
<1>5. x \in Nals /\ y \in Nals
  BY <1>1, <1>3, <1>4, ElementOfSeq DEF Coming
<1>6. /\ Genuine(x, delimited) /\ Genuine(y, delimited) /\ Follows(x, y, delimited)
      /\ x.unit \in {unit - 1, unit}
  BY <1>1, <1>3, <1>4 DEF Coming, Capture
<1> QED
  BY <1>2, <1>3, <1>5, <1>6

\* What the parser does with its buffer.
LEMMA Pushed ==
  ASSUME IInv, Push, annexB => Len(nals) > 1, ~annexB => misread < MisreadMax
  PROVE  /\ Coming' /\ annexB' \in BOOLEAN /\ misread' \in 0 .. MisreadMax
         /\ misread' = 0 => misread = 0 /\ annexB
<1>1. /\ Coming /\ annexB \in BOOLEAN /\ misread \in 0 .. MisreadMax /\ MisreadMax \in Nat
      /\ Len(nals) \in Nat
  BY BoundAssumption, LenProperties DEF IInv, TypeOK, Coming
<1>2. CASE annexB
  <2>1. nals' = Tail(nals) /\ delimited' = delimited /\ unit' = unit /\ annexB' = annexB
        /\ misread' = misread /\ Len(nals) > 1 /\ nals # <<>>
    BY <1>1, <1>2, EmptySeq DEF Push, IInv, Capture
  <2>2. Coming'
    BY <1>1, <2>1, TakeOne
  <2> QED
    BY <1>1, <1>2, <2>1, <2>2
<1>3. CASE ~annexB
  <2>1. nals' = nals /\ delimited' = delimited /\ unit' = unit /\ annexB' = annexB
        /\ misread' = misread + 1 /\ misread < MisreadMax
    BY <1>3 DEF Push
  <2>2. Coming'
    BY <1>1, <2>1 DEF Coming, Capture
  <2> QED
    BY <1>1, <1>3, <2>1, <2>2
<1> QED
  BY <1>1, <1>2, <1>3

\* The types, and what holds in and out of step.
Loose == /\ TypeOK /\ StartsDecodable /\ Capture
         /\ streamPrimed => sent # <<>>
         /\ misread = 0 => Noise \notin {sps, pps}

\* Of a NAL unit of any type, in step or not, what is known keeps its types and bounds.
LEMMA UnitTaken ==
  ASSUME IInv, Units
  PROVE  Loose' /\ (sps \notin Sets => Frames' = {})
<1>1. /\ TypeOK /\ StartsDecodable /\ Gated /\ Frames \subseteq DOMAIN sent
  BY DEF IInv, Frames
<1>2. ASSUME NEW type, NEW nal \in Parsed(type), Push
      PROVE  /\ Coming' /\ annexB' \in BOOLEAN /\ misread' \in 0 .. MisreadMax
             /\ misread' = 0 => misread = 0 /\ annexB
             /\ nal \in Nals /\ nal.type = type
             /\ misread' = 0 /\ type \in {"sps", "pps"} => nal.set # Noise
  <2>1. /\ nal \in Nals /\ nal.type = type
        /\ annexB => Len(nals) > 1 /\ nal = nals[1]
        /\ ~annexB => misread < MisreadMax
    BY <1>1, <1>2, ParsedIs
  <2>2. /\ Coming' /\ annexB' \in BOOLEAN /\ misread' \in 0 .. MisreadMax
        /\ misread' = 0 => misread = 0 /\ annexB
    BY <1>2, <2>1, Pushed
  <2>3. ASSUME misread' = 0 PROVE nal.set # Noise
    <3>1. Len(nals) > 1 /\ nal = nals[1] /\ Len(nals) \in Nat
      BY <1>1, <2>1, <2>2, <2>3, LenProperties DEF TypeOK
    <3>2. Genuine(nals[1], delimited)
      BY <3>1 DEF IInv, Capture
    <3> QED
      BY <3>1, <3>2, SetAssumption DEF Genuine
  <2> QED
    BY <2>1, <2>2, <2>3
<1>3. ASSUME sent' = sent, misread' = 0 => misread = 0
      PROVE  sent' \in Seq(Frame) /\ StartsDecodable' /\ (sps \notin Sets /\ running
               => Frames' = {})
  <2>1. StartsDecodable'
    BY <1>1, <1>3 DEF StartsDecodable, Real
  <2>2. Frames' = Frames
    BY <1>3 DEF Frames, Real
  <2> QED
    BY <1>1, <1>3, <2>1, <2>2 DEF TypeOK, Gated
<1>4. ASSUME NEW more \in Seq(Nals), NEW key \in BOOLEAN, Flush(more, key), running,
             misread' = 0 => misread = 0
      PROVE  /\ sent' \in Seq(Frame) /\ StartsDecodable' /\ (sps \notin Sets => Frames' = {})
             /\ vcl' \in Seq(Nals) /\ pendingKeyframe' \in BOOLEAN /\ streamPrimed' \in BOOLEAN
             /\ (streamPrimed' => sent' # <<>>)
  <2>1. /\ sent' \in Seq(Frame) /\ StartsDecodable' /\ (sps \notin Sets => Frames' = {})
        /\ vcl' = more /\ (streamPrimed' => sent' # <<>>)
    BY <1>4, Flushes
  <2>2. pendingKeyframe' \in BOOLEAN /\ streamPrimed' \in BOOLEAN
    BY <1>4, Zenon DEF Flush
  <2> QED
    BY <1>4, <2>1, <2>2
<1>5. <<>> \in Seq(Nals) /\ FALSE \in BOOLEAN
  OBVIOUS
<1>6. CASE Delimiter
  <2>1. PICK nal \in Parsed("aud") : TRUE
    BY <1>6 DEF Delimiter
  <2>2. /\ Push /\ running /\ Flush(<<>>, FALSE) /\ sps' = sps /\ pps' = pps /\ running' = running
    BY <1>6 DEF Delimiter, Push
  <2>3. Coming' /\ annexB' \in BOOLEAN /\ misread' \in 0 .. MisreadMax /\ (misread' = 0
          => misread = 0)
    BY <1>2, <2>1, <2>2
  <2>4. /\ sent' \in Seq(Frame) /\ StartsDecodable' /\ (sps \notin Sets => Frames' = {})
        /\ vcl' \in Seq(Nals) /\ pendingKeyframe' \in BOOLEAN /\ streamPrimed' \in BOOLEAN
        /\ (streamPrimed' => sent' # <<>>)
    BY <1>4, <1>5, <2>2, <2>3
  <2> QED
    BY <1>1, <2>2, <2>3, <2>4 DEF Loose, TypeOK, Coming, Gated
<1>7. CASE SPS
  <2>1. PICK nal \in Parsed("sps") : sps' = nal.set
    BY <1>7 DEF SPS
  <2>2. /\ Push /\ running /\ Flush(<<>>, FALSE) /\ pps' = pps /\ running' = running
    BY <1>7 DEF SPS, Push
  <2>3. /\ Coming' /\ annexB' \in BOOLEAN /\ misread' \in 0 .. MisreadMax
        /\ (misread' = 0 => misread = 0 /\ nal.set # Noise) /\ nal \in Nals
    BY <1>2, <2>1, <2>2
  <2>4. /\ sent' \in Seq(Frame) /\ StartsDecodable' /\ (sps \notin Sets => Frames' = {})
        /\ vcl' \in Seq(Nals) /\ pendingKeyframe' \in BOOLEAN /\ streamPrimed' \in BOOLEAN
        /\ (streamPrimed' => sent' # <<>>)
    BY <1>4, <1>5, <2>2, <2>3
  <2>5. sps' \in Sets \cup {NoSet, Noise}
    BY <2>1, <2>3 DEF Nals
  <2> QED
    BY <1>1, <2>1, <2>2, <2>3, <2>4, <2>5 DEF Loose, TypeOK, Coming, Gated
<1>8. CASE PPS
  <2>1. PICK nal \in Parsed("pps") : pps' = nal.set
    BY <1>8 DEF PPS
  <2>2. /\ Push /\ running /\ sps' = sps /\ vcl' = vcl /\ pendingKeyframe' = pendingKeyframe
        /\ streamPrimed' = streamPrimed /\ sent' = sent /\ running' = running
    BY <1>8 DEF PPS, Push
  <2>3. /\ Coming' /\ annexB' \in BOOLEAN /\ misread' \in 0 .. MisreadMax
        /\ (misread' = 0 => misread = 0 /\ nal.set # Noise) /\ nal \in Nals
    BY <1>2, <2>1, <2>2
  <2>4. sent' \in Seq(Frame) /\ StartsDecodable' /\ (sps \notin Sets => Frames' = {})
    BY <1>3, <2>2, <2>3
  <2>5. pps' \in Sets \cup {NoSet, Noise}
    BY <2>1, <2>3 DEF Nals
  <2> QED
    BY <1>1, <2>1, <2>2, <2>3, <2>4, <2>5 DEF Loose, TypeOK, Coming, Gated
<1>9. CASE SEI
  <2>1. PICK nal \in Parsed("sei") : TRUE
    BY <1>9 DEF SEI
  <2>2. /\ Push /\ running /\ sps' = sps /\ pps' = pps /\ vcl' = vcl
        /\ pendingKeyframe' = pendingKeyframe
        /\ streamPrimed' = streamPrimed /\ sent' = sent /\ running' = running
    BY <1>9 DEF SEI, Push, frameVars
  <2>3. Coming' /\ annexB' \in BOOLEAN /\ misread' \in 0 .. MisreadMax /\ (misread' = 0
          => misread = 0)
    BY <1>2, <2>1, <2>2
  <2>4. sent' \in Seq(Frame) /\ StartsDecodable' /\ (sps \notin Sets => Frames' = {})
    BY <1>3, <2>2, <2>3
  <2> QED
    BY <1>1, <2>2, <2>3, <2>4 DEF Loose, TypeOK, Coming, Gated
<1>10. CASE VCL
  <2>1. PICK slice \in Parsed("slice") :
          IF EndsUnit(slice) THEN Flush(<<slice>>, slice.idr) ELSE Keep(<<slice>>, slice.idr)
    BY <1>10 DEF VCL
  <2>2. Push /\ running /\ sps' = sps /\ pps' = pps /\ running' = running
    BY <1>10 DEF VCL, Push
  <2>3. /\ Coming' /\ annexB' \in BOOLEAN /\ misread' \in 0 .. MisreadMax
        /\ (misread' = 0 => misread = 0) /\ slice \in Nals
    BY <1>2, <2>1, <2>2
  <2>4. <<slice>> \in Seq(Nals) /\ slice.idr \in BOOLEAN
    BY <2>3 DEF Nals
  <2>5. CASE EndsUnit(slice)
    <3>1. /\ sent' \in Seq(Frame) /\ StartsDecodable' /\ (sps \notin Sets => Frames' = {})
          /\ vcl' \in Seq(Nals) /\ pendingKeyframe' \in BOOLEAN /\ streamPrimed' \in BOOLEAN
          /\ (streamPrimed' => sent' # <<>>)
      BY <1>4, <2>1, <2>2, <2>3, <2>4, <2>5
    <3> QED
      BY <1>1, <2>2, <2>3, <3>1 DEF Loose, TypeOK, Coming, Gated
  <2>6. CASE ~EndsUnit(slice)
    <3>1. Keep(<<slice>>, slice.idr)
      BY <2>1, <2>6
    <3>2. vcl' \in Seq(Nals) /\ sent' = sent /\ streamPrimed' = streamPrimed
      BY <1>1, <2>4, <3>1, ConcatProperties DEF Keep, TypeOK
    <3>3. pendingKeyframe' \in BOOLEAN
      BY <3>1, Zenon DEF Keep
    <3>4. sent' \in Seq(Frame) /\ StartsDecodable' /\ (sps \notin Sets => Frames' = {})
      BY <1>3, <2>2, <2>3, <3>2
    <3> QED
      BY <1>1, <2>2, <2>3, <3>2, <3>3, <3>4 DEF Loose, TypeOK, Coming, Gated
  <2> QED
    BY <2>5, <2>6
<1> QED
  BY <1>6, <1>7, <1>8, <1>9, <1>10 DEF Units

\* What may come behind a NAL unit.
LEMMA Behind ==
  ASSUME NEW aud, NEW x \in Nals, NEW y \in Nals, Genuine(x, aud), Genuine(y, aud),
         Follows(x, y, aud)
  PROVE  /\ x.type \in {"aud", "sps", "pps", "sei"} => SameUnit(x, y) /\ y.part \in {0, 1}
         /\ x.type = "aud" => aud /\ y.type \in IF x.idr THEN {"sps"} ELSE {"sei", "slice"}
         /\ x.type = "sps" => x.idr /\ y.type = "pps"
         /\ x.type = "pps" => x.idr /\ y.type \in {"sei", "slice"}
         /\ x.type = "sei" => y.type = "slice"
         /\ x.type = "slice" /\ x.part = x.of =>
              /\ y.unit = x.unit + 1 /\ y.part \in {0, 1}
              /\ y.type \in IF aud THEN {"aud"} ELSE IF y.idr THEN {"sps"} ELSE {"sei", "slice"}
         /\ x.type = "slice" /\ x.part # x.of =>
              SameUnit(x, y) /\ y.type = "slice" /\ y.part = x.part + 1
         /\ x.type = "slice" <=> x.part > 0
         /\ y.type = "slice" <=> y.part > 0
         /\ x.set \in Sets /\ y.set \in Sets
<1>1. /\ x.part \in Nat /\ y.part \in Nat /\ x.unit \in Nat /\ y.unit \in Nat
      /\ x.type \in {"aud", "sps", "pps", "sei", "slice"}
      /\ y.type \in {"aud", "sps", "pps", "sei", "slice"}
  BY DEF Nals
<1>2. /\ x.set \in Sets /\ (x.type = "slice" <=> x.part > 0)
      /\ y.set \in Sets /\ (y.type = "slice" <=> y.part > 0)
  BY DEF Genuine
<1>3. CASE x.type = "aud"
  BY <1>1, <1>2, <1>3 DEF Follows, Genuine, Then
<1>4. CASE x.type = "sps"
  BY <1>1, <1>2, <1>4 DEF Follows, Genuine, Then
<1>5. CASE x.type = "pps"
  BY <1>1, <1>2, <1>5 DEF Follows, Genuine, Then
<1>6. CASE x.type = "sei"
  BY <1>1, <1>2, <1>6 DEF Follows, Then
<1>7. CASE x.type = "slice"
  BY <1>1, <1>2, <1>7 DEF Follows, Then
<1> QED
  BY <1>1, <1>3, <1>4, <1>5, <1>6, <1>7

\* The invariant from its parts, in step.
LEMMA StaysInStep ==
  ASSUME IInv, Loose', sps' \in Sets, NEW y, y = nals'[1], Abreast(y)',
         Frames' # {} => streamPrimed', Sound', WholeUnits', UpToDate'
  PROVE  IInv'
<1>1. Synchronised'
  BY DEF Synchronised
<1>2. Gated'
  BY DEF Loose, Gated
<1> QED
  BY <1>1, <1>2 DEF IInv, Loose, Sound

\* Before the first real parameter set nothing counts but what the parser keeps.
LEMMA OutOfStep ==
  ASSUME IInv, Units, sps \notin Sets
  PROVE  IInv'
<1>1. Loose' /\ Frames' = {} /\ Video' = {}
  BY UnitTaken DEF Video
<1>2. WholeUnits' /\ CodecFits' /\ Joined' /\ UpToDate'
  BY <1>1 DEF WholeUnits, CodecFits, Joined, UpToDate
<1>3. Gated'
  BY <1>1 DEF Loose, Gated
<1>4. CASE sps' \notin Sets
  BY <1>1, <1>2, <1>3, <1>4 DEF IInv, Loose, Synchronised
<1>5. CASE sps' \in Sets
  <2>1. SPS
    BY <1>5 DEF Units, Delimiter, PPS, SEI, VCL, frameVars
  <2>2. PICK nal \in Parsed("sps") : sps' = nal.set
    BY <2>1 DEF SPS
  <2>3. annexB /\ Len(nals) > 1 /\ nal = nals[1] /\ nal.type = "sps"
    <3>1. /\ nal.type = "sps"
          /\ annexB => Len(nals) > 1 /\ nal = nals[1]
      BY <2>2, ParsedIs DEF IInv
    <3>2. ~annexB => nal.set = Noise
      BY <2>2 DEF Parsed, Misreads, Nal
    <3> QED
      BY <1>5, <2>2, <3>1, <3>2, SetAssumption
  <2>4. Push /\ running /\ vcl' = <<>>
    BY <2>1 DEF SPS, Push, Flush
  <2> DEFINE x == nals[1]
             y == nals'[1]
  <2>5. /\ annexB' /\ x \in Nals /\ Genuine(x, delimited)
        /\ y \in Nals /\ Genuine(y, delimited) /\ Follows(x, y, delimited)
    BY <2>3, <2>4, Given
  <2>6. SameUnit(x, y) /\ x.idr /\ y.type = "pps"
    BY <2>3, <2>5, Behind
  <2>7. y.idr /\ sps' = y.set
    BY <2>2, <2>3, <2>6 DEF SameUnit
  <2>8. Abreast(nals[1])'
    BY <2>4, <2>5, <2>6, <2>7 DEF Abreast, Cleared
  <2> QED
    BY <1>1, <1>2, <1>3, <2>8 DEF IInv, Loose, Synchronised
<1> QED
  BY <1>4, <1>5

\* In step, a step that sends nothing.
LEMMA Still ==
  ASSUME IInv, running, sent' = sent, NEW m, m = Len(sent')
  PROVE  /\ Sound' /\ WholeUnits' /\ Frames' = Frames
         /\ Frames # {} => /\ m \in Video'
                           /\ UnitOf(m)' + 1 = IF vcl = <<>> THEN nals[1].unit ELSE vcl[1].unit
<1>1. /\ Sound' /\ Frames' = Frames /\ Video' = Video
      /\ \A i \in Video : UnitOf(i)' = UnitOf(i) /\ (Whole(i)' <=> Whole(i))
  BY Unsent DEF IInv, Sound
<1>2. \A i \in Video : Whole(i)
  BY DEF IInv, WholeUnits
<1>3. WholeUnits'
  BY <1>1, <1>2 DEF WholeUnits
<1>4. ASSUME Frames # {}
      PROVE  m \in Video /\ UnitOf(m) + 1 = IF vcl = <<>> THEN nals[1].unit ELSE vcl[1].unit
  BY <1>4 DEF IInv, UpToDate
<1> QED
  BY <1>1, <1>3, <1>4

\* In step, one that sends a whole access unit.
LEMMA SentWhole ==
  ASSUME IInv, running, sps \in Sets, vcl # <<>>, Len(vcl) = vcl[1].of,
         NEW more \in Seq(Nals), NEW key \in BOOLEAN, Flush(more, key),
         misread' = 0 => misread = 0, NEW m, m = Len(sent')
  PROVE  /\ Sound' /\ WholeUnits' /\ Frames' # {} /\ streamPrimed' /\ m \in Video'
         /\ UnitOf(m)' = vcl[1].unit /\ vcl' = more /\ (pendingKeyframe' <=> key)
<1>1. /\ Frames' # {} /\ m \in Video' /\ streamPrimed' /\ UnitOf(m)' = vcl[1].unit
      /\ Sound' /\ (\A i \in Video' : i < m => Whole(i)') /\ Whole(m)'
      /\ vcl' = more /\ sent' \in Seq(Frame)
  BY Flushes
<1>2. ASSUME NEW i \in Video' PROVE Whole(i)'
  <2>1. i \in 1 .. m /\ m \in Nat
    BY <1>1, LenProperties DEF Video, Frames
  <2>2. CASE i = m
    BY <1>1, <2>2
  <2>3. CASE i # m
    <3>1. i < m
      BY <2>1, <2>3
    <3> QED
      BY <1>1, <3>1
  <2> QED
    BY <2>2, <2>3
<1>3. Decodable
  BY Collecting, ReadyPasses DEF IInv
<1>4. pendingKeyframe' <=> key
  BY <1>3, Zenon DEF Flush
<1>5. WholeUnits'
  BY <1>2 DEF WholeUnits
<1> QED
  BY <1>1, <1>4, <1>5

\* What Push has of the NAL unit x of an action of its type.
LEMMA InStepGiven ==
  ASSUME IInv, running, sps \in Sets, Push, NEW type, NEW nal \in Parsed(type),
         NEW x, x = nals[1], NEW y, y = nals'[1]
  PROVE  /\ nal = x /\ x.type = type /\ Abreast(x)
         /\ annexB' /\ (delimited' <=> delimited) /\ misread' = misread
         /\ x \in Nals /\ Genuine(x, delimited)
         /\ y \in Nals /\ Genuine(y, delimited) /\ Follows(x, y, delimited)
<1>1. annexB /\ Abreast(x)
  BY Collecting
<1>2. nal = x /\ x.type = type /\ Len(nals) > 1
  BY <1>1, ParsedIs DEF IInv
<1> QED
  BY <1>1, <1>2, Given

\* At a delimiter the access unit before it goes out.
LEMMA DelimiterInStep ==
  ASSUME IInv, Delimiter, sps \in Sets
  PROVE  IInv'
<1> SUFFICES ASSUME NEW x, x = nals[1], NEW y, y = nals'[1], NEW m, m = Len(sent')
             PROVE  IInv'
  OBVIOUS
<1>1. PICK nal \in Parsed("aud") : TRUE
  BY DEF Delimiter
<1>2. /\ Push /\ running /\ Flush(<<>>, FALSE) /\ sps' = sps /\ pps' = pps
  BY DEF Delimiter, Push
<1>3. Loose'
  BY UnitTaken DEF Units
<1>4. /\ x.type = "aud" /\ Abreast(x)
      /\ annexB' /\ (delimited' <=> delimited) /\ misread' = misread
      /\ x \in Nals /\ Genuine(x, delimited)
      /\ y \in Nals /\ Genuine(y, delimited) /\ Follows(x, y, delimited)
  BY <1>1, <1>2, InStepGiven
<1>5. /\ SameUnit(x, y) /\ delimited /\ y.type \in IF x.idr THEN {"sps"} ELSE {"sei", "slice"}
      /\ y.part \in {0, 1} /\ (y.type = "slice" <=> y.part > 0)
  BY <1>4, Behind
<1>6. vcl # <<>> /\ vcl[1].unit + 1 = x.unit /\ Len(vcl) = vcl[1].of
  BY <1>4 DEF Abreast, Cleared, Collected
<1>7. /\ Sound' /\ WholeUnits' /\ Frames' # {} /\ streamPrimed' /\ m \in Video'
      /\ UnitOf(m)' = vcl[1].unit /\ vcl' = <<>> /\ ~pendingKeyframe'
  <2>1. <<>> \in Seq(Nals) /\ FALSE \in BOOLEAN /\ (misread' = 0 => misread = 0)
    BY <1>4
  <2> QED
    BY <1>2, <1>6, <2>1, SentWhole
<1>8. pps' \in Sets
  BY <1>2, <1>4 DEF Abreast
<1>9. x.unit = y.unit /\ (x.idr <=> y.idr)
  BY <1>5 DEF SameUnit
<1>10. UpToDate'
  BY <1>6, <1>7, <1>9 DEF UpToDate
<1>11. Abreast(y)'
  BY <1>4, <1>5, <1>7, <1>8, <1>9 DEF Abreast, Cleared
<1> QED
  BY <1>2, <1>3, <1>7, <1>10, <1>11, StaysInStep

\* At a set of parameters so does it, if no delimiter has come before, and not with
\* the new parameters.
LEMMA SPSInStep ==
  ASSUME IInv, SPS, sps \in Sets
  PROVE  IInv'
<1> SUFFICES ASSUME NEW x, x = nals[1], NEW y, y = nals'[1], NEW m, m = Len(sent')
             PROVE  IInv'
  OBVIOUS
<1>1. PICK nal \in Parsed("sps") : sps' = nal.set
  BY DEF SPS
<1>2. /\ Push /\ running /\ Flush(<<>>, FALSE)
  BY DEF SPS, Push
<1>3. Loose'
  BY UnitTaken DEF Units
<1>4. /\ nal = x /\ x.type = "sps" /\ Abreast(x)
      /\ annexB' /\ (delimited' <=> delimited) /\ misread' = misread
      /\ x \in Nals /\ Genuine(x, delimited)
      /\ y \in Nals /\ Genuine(y, delimited) /\ Follows(x, y, delimited)
  BY <1>1, <1>2, InStepGiven
<1>5. SameUnit(x, y) /\ x.idr /\ y.type = "pps" /\ x.set \in Sets
  BY <1>4, Behind
<1>6. x.unit = y.unit /\ y.idr /\ sps' = y.set /\ sps' \in Sets
  BY <1>1, <1>4, <1>5 DEF SameUnit
<1>7. <<>> \in Seq(Nals) /\ FALSE \in BOOLEAN /\ (misread' = 0 => misread = 0)
  BY <1>4
<1>8. /\ Sound' /\ WholeUnits' /\ vcl' = <<>> /\ (Frames' # {} => streamPrimed')
      /\ Frames' # {} => m \in Video' /\ UnitOf(m)' + 1 = x.unit
  <2>1. CASE vcl = <<>>
    <3>1. sent' = sent /\ vcl' = <<>> /\ (streamPrimed => streamPrimed')
      BY <1>2, <1>7, <2>1, Flushes
    <3>2. /\ Sound' /\ WholeUnits' /\ Frames' = Frames
          /\ Frames # {} => m \in Video' /\ UnitOf(m)' + 1 = x.unit
      BY <1>2, <2>1, <3>1, Still
    <3>3. Frames # {} => streamPrimed
      BY <1>2 DEF IInv, Gated
    <3> QED
      BY <3>1, <3>2, <3>3
  <2>2. CASE vcl # <<>>
    <3>1. vcl[1].unit + 1 = x.unit /\ Len(vcl) = vcl[1].of
      BY <1>4, <2>2 DEF Abreast, Collected
    <3>2. /\ Sound' /\ WholeUnits' /\ Frames' # {} /\ streamPrimed' /\ m \in Video'
          /\ UnitOf(m)' = vcl[1].unit /\ vcl' = <<>>
      BY <1>2, <1>7, <2>2, <3>1, SentWhole
    <3> QED
      BY <3>1, <3>2
  <2> QED
    BY <2>1, <2>2
<1>9. UpToDate'
  BY <1>6, <1>8 DEF UpToDate
<1>10. Abreast(y)'
  BY <1>4, <1>5, <1>6, <1>8 DEF Abreast, Cleared
<1> QED
  BY <1>3, <1>6, <1>8, <1>9, <1>10, StaysInStep

\* Parameters of pictures and supplements only come after that.
LEMMA PPSInStep ==
  ASSUME IInv, PPS, sps \in Sets
  PROVE  IInv'
<1> SUFFICES ASSUME NEW x, x = nals[1], NEW y, y = nals'[1], NEW m, m = Len(sent')
             PROVE  IInv'
  OBVIOUS
<1>1. PICK nal \in Parsed("pps") : pps' = nal.set
  BY DEF PPS
<1>2. /\ Push /\ running /\ sps' = sps /\ vcl' = vcl /\ sent' = sent
      /\ (pendingKeyframe' <=> pendingKeyframe) /\ (streamPrimed' <=> streamPrimed)
  BY DEF PPS, Push
<1>3. Loose'
  BY UnitTaken DEF Units
<1>4. /\ nal = x /\ x.type = "pps" /\ Abreast(x)
      /\ annexB' /\ (delimited' <=> delimited) /\ misread' = misread
      /\ x \in Nals /\ Genuine(x, delimited)
      /\ y \in Nals /\ Genuine(y, delimited) /\ Follows(x, y, delimited)
  BY <1>1, <1>2, InStepGiven
<1>5. /\ SameUnit(x, y) /\ x.idr /\ y.type \in {"sei", "slice"} /\ x.set \in Sets
      /\ y.part \in {0, 1} /\ (y.type = "slice" <=> y.part > 0)
  BY <1>4, Behind
<1>6. x.unit = y.unit /\ y.idr /\ x.set = y.set
  BY <1>5 DEF SameUnit
<1>7. vcl = <<>> /\ sps = x.set
  BY <1>4, <1>5 DEF Abreast, Cleared
<1>8. /\ Sound' /\ WholeUnits' /\ (Frames' # {} => streamPrimed')
      /\ Frames' # {} => m \in Video' /\ UnitOf(m)' + 1 = x.unit
  <2>1. /\ Sound' /\ WholeUnits' /\ Frames' = Frames
        /\ Frames # {} => m \in Video' /\ UnitOf(m)' + 1 = x.unit
    BY <1>2, <1>7, Still
  <2>2. Frames # {} => streamPrimed
    BY <1>2 DEF IInv, Gated
  <2> QED
    BY <1>2, <2>1, <2>2
<1>9. UpToDate'
  BY <1>2, <1>6, <1>7, <1>8 DEF UpToDate
<1>10. Abreast(y)'
  BY <1>1, <1>2, <1>4, <1>5, <1>6, <1>7 DEF Abreast, Cleared
<1> QED
  BY <1>2, <1>3, <1>8, <1>9, <1>10, StaysInStep

\* SEI is passed over: what was collected stays for the unit behind it.
LEMMA SEIInStep ==
  ASSUME IInv, SEI, sps \in Sets
  PROVE  IInv'
<1> SUFFICES ASSUME NEW x, x = nals[1], NEW y, y = nals'[1], NEW m, m = Len(sent')
             PROVE  IInv'
  OBVIOUS
<1>1. PICK nal \in Parsed("sei") : TRUE
  BY DEF SEI
<1>2. /\ Push /\ running /\ sps' = sps /\ pps' = pps /\ vcl' = vcl /\ sent' = sent
      /\ pendingKeyframe' = pendingKeyframe /\ (streamPrimed' <=> streamPrimed)
  BY DEF SEI, Push, frameVars
<1>3. Loose'
  BY UnitTaken DEF Units
<1>4. /\ x.type = "sei" /\ Abreast(x)
      /\ annexB' /\ (delimited' <=> delimited) /\ misread' = misread
      /\ x \in Nals /\ Genuine(x, delimited)
      /\ y \in Nals /\ Genuine(y, delimited) /\ Follows(x, y, delimited)
  BY <1>1, <1>2, InStepGiven
<1>5. /\ SameUnit(x, y) /\ y.type = "slice" /\ y.part = 1
  BY <1>4, Behind
<1>6. x.unit = y.unit /\ (x.idr <=> y.idr) /\ x.set = y.set
  BY <1>5 DEF SameUnit
<1>7. /\ Sound' /\ WholeUnits' /\ Frames' = Frames /\ (Frames' # {} => streamPrimed')
      /\ Frames' # {} => /\ m \in Video'
                         /\ UnitOf(m)' + 1 = IF vcl = <<>> THEN x.unit ELSE vcl[1].unit
  <2>1. /\ Sound' /\ WholeUnits' /\ Frames' = Frames
        /\ Frames # {} => /\ m \in Video'
                          /\ UnitOf(m)' + 1 = IF vcl = <<>> THEN x.unit ELSE vcl[1].unit
    BY <1>2, Still
  <2>2. Frames # {} => streamPrimed
    BY <1>2 DEF IInv, Gated
  <2> QED
    BY <1>2, <2>1, <2>2
<1>8. UpToDate'
  BY <1>2, <1>6, <1>7 DEF UpToDate
<1>9. (Cleared(x) <=> Cleared(y)') /\ (Collected(x) => Collected(y)')
  BY <1>2, <1>4, <1>5, <1>6 DEF Cleared, Collected
<1>10. Abreast(y)'
  BY <1>2, <1>4, <1>5, <1>6, <1>7, <1>9 DEF Abreast
<1> QED
  BY <1>2, <1>3, <1>7, <1>8, <1>10, StaysInStep

\* What StreamFrames has once it has taken the slice x: the access unit of x up to x.
Upto(x) ==
  /\ vcl \in Seq(Nals) /\ vcl # <<>> /\ Len(vcl) = x.part
  /\ \A i \in 1 .. Len(vcl) : SameUnit(vcl[i], x) /\ vcl[i].part = i
  /\ pendingKeyframe = x.idr

\* A sequence with one slice more.
LEMMA OneAppended ==
  ASSUME NEW s \in Seq(Nals), NEW x \in Nals
  PROVE  /\ s \o <<x>> \in Seq(Nals) /\ Len(s \o <<x>>) = Len(s) + 1 /\ Len(s) \in Nat
         /\ \A i \in 1 .. Len(s) : (s \o <<x>>)[i] = s[i]
         /\ (s \o <<x>>)[Len(s) + 1] = x
<1>1. /\ <<x>> \in Seq(Nals) /\ Len(<<x>>) = 1 /\ <<x>>[1] = x /\ Len(s) \in Nat
  BY LenProperties
<1>2. PICK w : w = <<x>>
  OBVIOUS
<1>3. w \in Seq(Nals) /\ Len(w) = 1 /\ w[1] = x
  BY <1>1, <1>2
<1>4. /\ s \o w \in Seq(Nals) /\ Len(s \o w) = Len(s) + Len(w)
      /\ \A i \in 1 .. Len(s) : (s \o w)[i] = s[i]
      /\ \A i \in 1 .. Len(w) : (s \o w)[Len(s) + i] = w[i]
  BY <1>3, ConcatAt
<1>5. (s \o w)[Len(s) + 1] = x
  BY <1>3, <1>4
<1> QED
  BY <1>1, <1>2, <1>3, <1>4, <1>5

\* The first slice of an access unit and the next one.
LEMMA OneSlice ==
  ASSUME NEW x \in Nals, x.part = 1, vcl' = <<x>>, pendingKeyframe' = x.idr
  PROVE  Upto(x)'
<1>1. <<x>> \in Seq(Nals) /\ Len(<<x>>) = 1 /\ <<x>>[1] = x /\ <<x>> # <<>>
  OBVIOUS
<1>2. SameUnit(x, x)
  BY DEF SameUnit
<1> QED
  BY <1>1, <1>2 DEF Upto

\* The next slice of an access unit joins those before it.
LEMMA OneMoreSlice ==
  ASSUME vcl \in Seq(Nals), NEW x \in Nals, vcl # <<>>, Len(vcl) = x.part - 1,
         \A i \in 1 .. Len(vcl) : SameUnit(vcl[i], x) /\ vcl[i].part = i,
         vcl' = vcl \o <<x>>, pendingKeyframe' = x.idr
  PROVE  Upto(x)'
<1>0. x.part \in Nat
  BY DEF Nals
<1>2. /\ vcl' \in Seq(Nals) /\ Len(vcl') = Len(vcl) + 1 /\ Len(vcl) \in Nat
      /\ \A i \in 1 .. Len(vcl) : vcl'[i] = vcl[i]
      /\ vcl'[Len(vcl) + 1] = x
  BY OneAppended
<1>3. Len(vcl') = x.part /\ vcl' # <<>>
  <2>1. Len(vcl') = x.part /\ Len(vcl') # 0
    BY <1>0, <1>2
  <2> QED
    BY <1>2, <2>1, EmptySeq
<1>4. ASSUME NEW i \in 1 .. Len(vcl')
      PROVE  SameUnit(vcl'[i], x) /\ vcl'[i].part = i
  <2>1. CASE i <= Len(vcl)
    BY <1>2, <2>1
  <2>2. CASE i > Len(vcl)
    <3>1. i = Len(vcl) + 1 /\ i = x.part
      BY <1>0, <1>2, <2>2
    <3> QED
      BY <1>2, <3>1 DEF SameUnit
  <2> QED
    BY <1>2, <2>1, <2>2
<1> QED
  BY <1>2, <1>3, <1>4 DEF Upto

\* Where that leaves it, before the NAL unit y behind x.
LEMMA SliceBefore ==
  ASSUME NEW x \in Nals, NEW y \in Nals, delimited \in BOOLEAN, delimited' <=> delimited,
           Genuine(x, delimited),
         Genuine(y, delimited), Follows(x, y, delimited), x.type = "slice",
         Upto(x)', annexB', pps' \in Sets, x.idr => sps' = x.set /\ pps' = x.set,
         ~x.idr => Frames' # {}
  PROVE  Abreast(y)'
<1>1. /\ x.set \in Sets /\ x.part > 0 /\ x.part \in Nat /\ y.part \in Nat
      /\ y.type = "slice" <=> y.part > 0
      /\ x.part = x.of => /\ y.unit = x.unit + 1 /\ y.part \in {0, 1}
                          /\ y.type \in IF delimited THEN {"aud"}
                                        ELSE IF y.idr THEN {"sps"} ELSE {"sei", "slice"}
      /\ x.part # x.of => SameUnit(x, y) /\ y.type = "slice" /\ y.part = x.part + 1
  BY Behind DEF Nals
<1>2. /\ 1 \in 1 .. Len(vcl') /\ vcl' # <<>> /\ SameUnit(vcl'[1], x) /\ Len(vcl') = x.part
      /\ \A i \in 1 .. Len(vcl') : SameUnit(vcl'[i], x) /\ vcl'[i].part = i
  BY <1>1 DEF Upto
<1>3. /\ vcl'[1].unit = x.unit /\ vcl'[1].set = x.set /\ vcl'[1].of = x.of
      /\ (vcl'[1].idr <=> x.idr)
  BY <1>2 DEF SameUnit
<1>4. pendingKeyframe' = vcl'[1].idr
  BY <1>2 DEF Upto, SameUnit
<1>5. \A i \in 1 .. Len(vcl') : SameUnit(vcl'[i], vcl'[1]) /\ vcl'[i].part = i
  BY <1>2 DEF SameUnit
<1>6. ~Cleared(y)'
  BY <1>1 DEF Cleared
<1>7. Collected(y)'
  <2>1. CASE x.part = x.of
    BY <1>1, <1>2, <1>3, <1>5, <2>1 DEF Collected
  <2>2. CASE x.part # x.of
    <3>1. SameUnit(vcl'[1], y) /\ Len(vcl') = y.part - 1 /\ y.type = "slice" /\ y.part > 1
      BY <1>1, <1>2, <2>2 DEF SameUnit
    <3> QED
      BY <1>1, <1>2, <1>3, <1>5, <3>1 DEF Collected
  <2> QED
    BY <2>1, <2>2
<1>8. /\ y.idr /\ y.type \in {"pps", "sei", "slice"} => sps' = y.set
      /\ y.idr /\ y.type \in {"sei", "slice"} => pps' = y.set
  <2>1. CASE x.part = x.of
    <3>1. y.type = "aud" \/ (y.idr /\ y.type = "sps") \/ ~y.idr
      BY <1>1, <2>1
    <3> QED
      BY <3>1
  <2>2. CASE x.part # x.of
    BY <1>1, <2>2 DEF SameUnit
  <2> QED
    BY <2>1, <2>2
<1> QED
  BY <1>2, <1>3, <1>4, <1>6, <1>7, <1>8 DEF Abreast

\* A slice is added to its own access unit, and sends the one before.
LEMMA VCLInStep ==
  ASSUME IInv, VCL, sps \in Sets
  PROVE  IInv'
<1> SUFFICES ASSUME NEW x, x = nals[1], NEW y, y = nals'[1], NEW m, m = Len(sent')
             PROVE  IInv'
  OBVIOUS
<1>1. PICK slice \in Parsed("slice") :
        IF EndsUnit(slice) THEN Flush(<<slice>>, slice.idr) ELSE Keep(<<slice>>, slice.idr)
  BY DEF VCL
<1>2. Push /\ running /\ sps' = sps /\ pps' = pps
  BY DEF VCL, Push
<1>3. Loose'
  BY UnitTaken DEF Units
<1>4. /\ slice = x /\ x.type = "slice" /\ Abreast(x)
      /\ annexB' /\ (delimited' <=> delimited) /\ misread' = misread
      /\ x \in Nals /\ Genuine(x, delimited)
      /\ y \in Nals /\ Genuine(y, delimited) /\ Follows(x, y, delimited)
  BY <1>1, <1>2, InStepGiven
<1>5. /\ x.part > 0 /\ x.part \in Nat /\ x.idr \in BOOLEAN /\ <<x>> \in Seq(Nals)
      /\ vcl \in Seq(Nals) /\ pendingKeyframe \in BOOLEAN /\ delimited \in BOOLEAN
  <2>1. x.part > 0 /\ x.part \in Nat /\ x.idr \in BOOLEAN
    BY <1>4 DEF Nals, Genuine
  <2>2. <<x>> \in Seq(Nals)
    BY <1>4
  <2>3. vcl \in Seq(Nals) /\ pendingKeyframe \in BOOLEAN /\ delimited \in BOOLEAN
    BY DEF IInv, TypeOK
  <2> QED
    BY <2>1, <2>2, <2>3
<1>6. pps' \in Sets /\ (x.idr => sps' = x.set /\ pps' = x.set)
  BY <1>2, <1>4 DEF Abreast
<1>7. Frames # {} => streamPrimed
  BY <1>2 DEF IInv, Gated
<1>8. /\ Upto(x)' /\ (~x.idr => Frames' # {}) /\ (Frames' # {} => streamPrimed')
      /\ Sound' /\ WholeUnits' /\ (Frames' # {} => m \in Video' /\ UnitOf(m)' + 1 = x.unit)
  <2>1. CASE vcl = <<>>
    <3>1. Cleared(x) /\ (pendingKeyframe => x.idr) /\ (~x.idr => Frames # {})
      BY <1>4, <2>1 DEF Abreast, Collected
    <3>2. x.part = 1
      BY <1>4, <3>1 DEF Cleared
    <3>3. Keep(<<x>>, x.idr)
      BY <1>1, <1>4, <2>1 DEF EndsUnit
    <3>4. vcl' = <<x>> /\ sent' = sent /\ (streamPrimed' <=> streamPrimed)
      BY <1>5, <2>1, <3>3, ConcatEmptySeq DEF Keep
    <3>5. pendingKeyframe' = x.idr
      BY <1>5, <3>1, <3>3, Zenon DEF Keep
    <3>6. Upto(x)'
      BY <1>4, <3>2, <3>4, <3>5, OneSlice
    <3>7. /\ Sound' /\ WholeUnits' /\ Frames' = Frames
          /\ Frames # {} => m \in Video' /\ UnitOf(m)' + 1 = x.unit
      BY <1>2, <2>1, <3>4, Still
    <3> QED
      BY <1>7, <3>1, <3>4, <3>6, <3>7
  <2>2. CASE vcl # <<>> /\ x.part = 1
    <3>1. vcl[1].unit + 1 = x.unit /\ Len(vcl) = vcl[1].of
      BY <1>4, <2>2 DEF Abreast, Collected
    <3>2. Flush(<<x>>, x.idr)
      BY <1>1, <1>4, <2>2 DEF EndsUnit
    <3>3. misread' = 0 => misread = 0
      BY <1>4
    <3>4. /\ Sound' /\ WholeUnits' /\ Frames' # {} /\ streamPrimed' /\ m \in Video'
          /\ UnitOf(m)' = vcl[1].unit /\ vcl' = <<x>> /\ (pendingKeyframe' <=> x.idr)
      BY <1>2, <1>5, <2>2, <3>1, <3>2, <3>3, SentWhole
    <3>5. pendingKeyframe' = x.idr
      <4>1. pendingKeyframe' \in BOOLEAN
        BY <1>3 DEF Loose, TypeOK
      <4> QED
        BY <1>5, <3>4, <4>1, Zenon
    <3>6. Upto(x)'
      BY <1>4, <2>2, <3>4, <3>5, OneSlice
    <3> QED
      BY <3>1, <3>4, <3>6
  <2>3. CASE vcl # <<>> /\ x.part # 1
    <3>1. /\ SameUnit(vcl[1], x) /\ Len(vcl) = x.part - 1 /\ pendingKeyframe = vcl[1].idr
          /\ \A i \in 1 .. Len(vcl) : SameUnit(vcl[i], vcl[1]) /\ vcl[i].part = i
          /\ ~vcl[1].idr => Frames # {}
      <4>1. Collected(x) /\ x.part > 1
        BY <1>4, <1>5, <2>3 DEF Abreast, Cleared
      <4>2. pendingKeyframe = vcl[1].idr /\ (~vcl[1].idr => Frames # {})
        BY <1>4, <2>3 DEF Abreast
      <4>3. /\ SameUnit(vcl[1], x) /\ Len(vcl) = x.part - 1
            /\ \A i \in 1 .. Len(vcl) : SameUnit(vcl[i], vcl[1]) /\ vcl[i].part = i
        BY <1>4, <4>1 DEF Collected
      <4> QED
        BY <4>2, <4>3
    <3>2. vcl[1].idr = x.idr /\ vcl[1].unit = x.unit /\ pendingKeyframe = x.idr
      BY <3>1 DEF SameUnit
    <3>3. Keep(<<x>>, x.idr)
      BY <1>1, <1>4, <2>3, <3>2 DEF EndsUnit
    <3>4. vcl' = vcl \o <<x>> /\ sent' = sent /\ (streamPrimed' <=> streamPrimed)
      BY <3>3 DEF Keep
    <3>5. pendingKeyframe' = x.idr
      BY <1>5, <3>2, <3>3, Zenon DEF Keep
    <3>6. \A i \in 1 .. Len(vcl) : SameUnit(vcl[i], x) /\ vcl[i].part = i
      BY <3>1 DEF SameUnit
    <3>7. Upto(x)'
      BY <1>4, <1>5, <2>3, <3>1, <3>4, <3>5, <3>6, OneMoreSlice
    <3>8. /\ Sound' /\ WholeUnits' /\ Frames' = Frames
          /\ Frames # {} => m \in Video' /\ UnitOf(m)' + 1 = x.unit
      BY <1>2, <2>3, <3>2, <3>4, Still
    <3>9. ~x.idr => Frames # {}
      BY <3>1, <3>2
    <3> QED
      BY <1>7, <3>4, <3>7, <3>8, <3>9
  <2> QED
    BY <2>1, <2>2, <2>3
<1>9. Abreast(y)'
  BY <1>4, <1>5, <1>6, <1>8, SliceBefore
<1>10. UpToDate'
  <2>1. vcl' # <<>> /\ vcl'[1].unit = x.unit
    BY <1>5, <1>8 DEF Upto, SameUnit
  <2> QED
    BY <1>8, <2>1 DEF UpToDate
<1> QED
  BY <1>2, <1>3, <1>8, <1>9, <1>10, StaysInStep

-----------------------------------------------------------------------------
(* The end of a stream                                                     *)

\* What has gone out when a stream ends.
Ended ==
  /\ sent \in Seq(Frame) /\ StartsDecodable /\ Sound
  /\ \A i \in Video : i < Len(sent) => Whole(i)
  /\ streamPrimed => sent # <<>>

\* A stream that ends leaves a sound order of frames, if what it sent last was one.
LEMMA EndKeeps ==
  ASSUME IInv, ~running', running' \in BOOLEAN, Ended', UNCHANGED captureVars, UNCHANGED parserVars,
         sps' = sps, pps' = pps,
         vcl' \in Seq(Nals), pendingKeyframe' \in BOOLEAN, streamPrimed' \in BOOLEAN
  PROVE  IInv'
<1>1. TypeOK'
  BY DEF IInv, TypeOK, Ended, captureVars, parserVars
<1>2. Capture'
  BY DEF IInv, Capture, captureVars, parserVars
<1>3. Gated' /\ Synchronised' /\ UpToDate'
  BY DEF IInv, Gated, Synchronised, UpToDate, Ended, parserVars
<1>4. WholeUnits' /\ Sound' /\ StartsDecodable'
  BY DEF Ended, WholeUnits
<1> QED
  BY <1>1, <1>2, <1>3, <1>4 DEF IInv, Sound

\* Nothing more may go out, or what is pending.
LEMMA EndUnsent ==
  ASSUME IInv, running, sent' = sent, streamPrimed' => streamPrimed, misread' = misread
  PROVE  Ended'
<1>1. /\ Sound' /\ Video' = Video
      /\ \A i \in Video : UnitOf(i)' = UnitOf(i) /\ (Whole(i)' <=> Whole(i))
  BY Unsent DEF IInv, Sound
<1>2. \A i \in Video : Whole(i)
  BY DEF IInv, WholeUnits
<1>3. StartsDecodable' /\ sent' \in Seq(Frame) /\ (streamPrimed' => sent' # <<>>)
  BY DEF IInv, TypeOK, StartsDecodable, Real, Gated
<1> QED
  BY <1>1, <1>2, <1>3 DEF Ended

\* Where nothing that is sent counts.
LEMMA EndOutOfStep ==
  ASSUME IInv, running, sps \notin Sets, NEW w, Part(w), sent' = sent \o w, misread' = misread,
         streamPrimed' => sent' # <<>>
  PROVE  Ended'
<1>1. sent' \in Seq(Frame) /\ StartsDecodable' /\ Frames' = {} /\ Video' = {}
  BY PartSent DEF IInv, Video
<1>2. CodecFits' /\ Joined'
  BY <1>1 DEF CodecFits, Joined
<1> QED
  BY <1>1, <1>2 DEF Ended, Sound

\* The last flush at the end of a capture may send an access unit that is not whole.
LEMMA CaptureEndKeeps ==
  ASSUME IInv, CaptureEnds
  PROVE  IInv'
<1>1. /\ running /\ ~running' /\ running' \in BOOLEAN /\ UNCHANGED captureVars
      /\ UNCHANGED parserVars /\ sps' = sps /\ pps' = pps /\ misread' = misread
  BY DEF CaptureEnds, parserVars
<1>2. CASE Flush(<<>>, FALSE)
  <2>1. <<>> \in Seq(Nals) /\ FALSE \in BOOLEAN
    OBVIOUS
  <2>2. /\ sent' \in Seq(Frame) /\ StartsDecodable' /\ vcl' = <<>>
        /\ (streamPrimed' => sent' # <<>>)
        /\ sps \notin Sets => Frames' = {}
        /\ sps \in Sets /\ vcl = <<>> => sent' = sent
        /\ sps \in Sets /\ vcl # <<>> => Sound' /\ \A i \in Video' : i < Len(sent') => Whole(i)'
    BY <1>1, <1>2, <2>1, Flushes
  <2>3. pendingKeyframe' \in BOOLEAN /\ streamPrimed' \in BOOLEAN
    BY <1>2, Zenon DEF Flush
  <2>4. CASE sps \notin Sets
    <3>1. Video' = {} /\ CodecFits' /\ Joined'
      BY <2>2, <2>4 DEF Video, CodecFits, Joined
    <3>2. Ended'
      BY <2>2, <3>1 DEF Ended, Sound
    <3> QED
      BY <1>1, <2>1, <2>2, <2>3, <3>2, EndKeeps
  <2>5. CASE sps \in Sets /\ vcl # <<>>
    <3>1. Ended'
      BY <2>2, <2>5 DEF Ended
    <3> QED
      BY <1>1, <2>1, <2>2, <2>3, <3>1, EndKeeps
  <2>6. CASE sps \in Sets /\ vcl = <<>>
    <3>1. /\ Sound' /\ Video' = Video
          /\ \A i \in Video : UnitOf(i)' = UnitOf(i) /\ (Whole(i)' <=> Whole(i))
      BY <2>2, <2>6, Unsent DEF IInv, Sound
    <3>2. \A i \in Video : Whole(i)
      BY <1>1 DEF IInv, WholeUnits
    <3>3. Ended'
      BY <2>2, <3>1, <3>2 DEF Ended
    <3> QED
      BY <1>1, <2>1, <2>2, <2>3, <3>3, EndKeeps
  <2> QED
    BY <2>4, <2>5, <2>6
<1>3. CASE UNCHANGED <<sent, vcl, streamPrimed, pendingKeyframe>>
  <2>1. Ended'
    BY <1>1, <1>3, EndUnsent
  <2>2. vcl' \in Seq(Nals) /\ pendingKeyframe' \in BOOLEAN /\ streamPrimed' \in BOOLEAN
    BY <1>3 DEF IInv, TypeOK
  <2> QED
    BY <1>1, <2>1, <2>2, EndKeeps
<1> QED
  BY <1>2, <1>3 DEF CaptureEnds

\* A send that fails leaves all frames before it, and at most a codec frame more.
LEMMA CodecSent ==
  ASSUME IInv, running, Ready, vcl[1].idr, NEW w \in Seq(Frame), Len(w) = 1, w[1] = Codec,
         sent' = sent \o w
  PROVE  Sound' /\ \A i \in Video' : i < Len(sent') => Whole(i)'
<1> SUFFICES ASSUME NEW n, n = Len(sent), NEW m, m = Len(sent')
             PROVE  Sound' /\ \A i \in Video' : i < m => Whole(i)'
  OBVIOUS
<1>1. /\ sent' \in Seq(Frame) /\ m = n + 1 /\ n \in Nat
      /\ \A i \in 1 .. n : sent'[i] = sent[i]
      /\ \A i \in 1 .. n : i \in Frames' <=> i \in Frames
      /\ \A i \in 1 .. n : i \in Video' <=> i \in Video
      /\ Frames \subseteq 1 .. n /\ Frames' \subseteq 1 .. m
      /\ Video \subseteq Frames /\ Video' \subseteq Frames'
  BY Grows DEF IInv, TypeOK
<1>2. sent'[m] = Codec /\ Codec.kind = "codec"
  <2>1. /\ \A i \in 1 .. Len(w) : sent'[n + i] = w[i]
    BY Grows DEF IInv, TypeOK
  <2>2. sent'[n + 1] = w[1]
    <3>1. 1 \in 1 .. Len(w)
      OBVIOUS
    <3> QED
      BY <2>1, <3>1
  <2> QED
    BY <1>1, <2>2 DEF Codec
<1>3. m \notin Video'
  BY <1>2 DEF Video
<1>4. Video' = Video
  <2>1. \A i \in Video' : i \in 1 .. n
    BY <1>1, <1>3
  <2> QED
    BY <1>1, <2>1
<1>5. Frames # {} => n \in Video
  BY DEF IInv, UpToDate
<1>6. \A i \in Video : /\ i \in 1 .. n /\ sent'[i] = sent[i]
                       /\ i > 1 => sent'[i - 1] = sent[i - 1]
  BY <1>1
<1>7. ASSUME NEW i \in Frames', sent'[i].kind = "codec", i < m
      PROVE  i + 1 \in Video' /\ sent'[i + 1].key
  <2>1. i \in 1 .. n /\ i \in Frames /\ sent[i].kind = "codec"
    BY <1>1, <1>7
  <2>2. i # n
    BY <1>5, <2>1 DEF Video
  <2>3. i < Len(sent) /\ i + 1 \in 1 .. n
    BY <1>1, <2>1, <2>2
  <2>4. i + 1 \in Video /\ sent[i + 1].key
    BY <2>1, <2>3 DEF IInv, CodecFits
  <2> QED
    BY <1>4, <1>6, <2>4
<1>8. CodecFits'
  <2>1. ASSUME NEW i \in Video
        PROVE  /\ sent'[i].key = sent'[i].slices[1].idr
               /\ sent'[i].key => /\ i > 1 /\ sent'[i - 1].kind = "codec"
                                  /\ sent'[i - 1].sps = sent'[i].slices[1].set
                                  /\ sent'[i - 1].pps = sent'[i].slices[1].set
    BY <1>6 DEF IInv, CodecFits
  <2> QED
    BY <1>4, <1>7, <2>1 DEF CodecFits
<1>9. \A i \in Video : UnitOf(i)' = UnitOf(i) /\ (Whole(i)' <=> Whole(i))
  BY <1>6 DEF UnitOf, Whole
<1>10. Joined'
  BY <1>4, <1>6, <1>9 DEF IInv, Joined
<1>11. \A i \in Video : Whole(i)
  BY DEF IInv, WholeUnits
<1> QED
  BY <1>4, <1>8, <1>9, <1>10, <1>11 DEF Sound

\* A send that fails may have sent the codec frame and not its keyframe.
LEMMA SendFailKeeps ==
  ASSUME IInv, SendFails
  PROVE  IInv'
<1>1. /\ running /\ ~running' /\ running' \in BOOLEAN /\ UNCHANGED captureVars
      /\ UNCHANGED parserVars /\ sps' = sps /\ pps' = pps /\ misread' = misread
      /\ vcl' = vcl /\ streamPrimed' = streamPrimed /\ pendingKeyframe' = pendingKeyframe
  BY DEF SendFails, parserVars
<1>2. vcl' \in Seq(Nals) /\ pendingKeyframe' \in BOOLEAN /\ streamPrimed' \in BOOLEAN
  BY <1>1 DEF IInv, TypeOK
<1>3. PICK k \in 0 .. Len(Flushed) - 1 : sent' = sent \o SubSeq(Flushed, 1, k)
  BY DEF SendFails
<1>4. PICK w : w = SubSeq(Flushed, 1, k)
  OBVIOUS
<1>5. Part(w) /\ Len(w) = k /\ sent' = sent \o w
  BY <1>3, <1>4, Parts DEF IInv
<1>6. streamPrimed' => sent' # <<>>
  BY <1>1, <1>5, PartSent DEF IInv, Gated
<1>7. Ended'
  <2>1. CASE sps \notin Sets
    BY <1>1, <1>5, <1>6, <2>1, EndOutOfStep
  <2>2. CASE sps \in Sets
    <3>1. Len(Flushed) \in Nat /\ k \in Nat /\ k < Len(Flushed) /\ Flushed # <<>>
      BY <1>3, FlushedIs, LenProperties DEF IInv
    <3>2. Ready
      BY <1>1, <2>2, <3>1, Collecting, FlushedIs DEF IInv
    <3>3. CASE k = 0
      <4>1. w = <<>> /\ sent' = sent
        BY <1>5, <3>3, EmptySeq, ConcatEmptySeq DEF Part, IInv, TypeOK
      <4> QED
        BY <1>1, <4>1, EndUnsent
    <3>4. CASE k # 0
      <4>1. vcl[1].idr /\ Len(Flushed) = 2 /\ Flushed[1] = Codec
        <5>1. /\ vcl[1].idr => Len(Flushed) = 2 /\ Flushed[1] = Codec
              /\ ~vcl[1].idr => Len(Flushed) = 1
          BY <1>1, <3>2, ReadyPasses DEF IInv
        <5>2. Len(Flushed) # 1
          <6>1. \A a, b \in Nat : a < b /\ a # 0 => b # 1
            OBVIOUS
          <6> QED
            BY <3>1, <3>4, <6>1, Zenon
        <5> QED
          BY <5>1, <5>2, Zenon
      <4>2. w \in Seq(Frame) /\ Len(w) = 1 /\ w[1] = Codec
        BY <1>5, <3>1, <3>4, <4>1 DEF Part
      <4>3. Sound' /\ \A i \in Video' : i < Len(sent') => Whole(i)'
        BY <1>1, <1>5, <3>2, <4>1, <4>2, CodecSent
      <4>4. sent' \in Seq(Frame) /\ StartsDecodable'
        BY <1>1, <1>5, PartSent DEF IInv
      <4> QED
        BY <1>6, <4>3, <4>4 DEF Ended
    <3> QED
      BY <3>3, <3>4
  <2> QED
    BY <2>1, <2>2
<1> QED
  BY <1>1, <1>2, <1>7, EndKeeps

-----------------------------------------------------------------------------
(* The invariant                                                           *)

\* The steps of the capture and of the parser that StreamFrames does not see.
LEMMA CaptureKeeps ==
  ASSUME IInv, NextUnit \/ FindStartCode \/ DropBuffer
  PROVE  IInv'
<1>1. /\ running' = running /\ sps' = sps /\ pps' = pps /\ vcl' = vcl /\ sent' = sent
      /\ pendingKeyframe' = pendingKeyframe /\ streamPrimed' = streamPrimed /\ running
  BY DEF NextUnit, FindStartCode, DropBuffer, frameVars
<1>2. Coming
  BY DEF IInv, TypeOK, Coming
<1>3. /\ Coming' /\ annexB' \in BOOLEAN /\ misread' \in 0 .. MisreadMax
      /\ (annexB => annexB') /\ (delimited' <=> delimited) /\ (misread' = 0 => misread = 0)
      /\ annexB /\ nals # <<>> => nals'[1] = nals[1]
  <2>1. CASE NextUnit
    <3>1. Coming' /\ (nals # <<>> => nals'[1] = nals[1])
      BY <1>2, <2>1, Continues
    <3> QED
      BY <2>1, <3>1 DEF NextUnit, parserVars, IInv, TypeOK
  <2>2. CASE FindStartCode
    <3>1. /\ nals' = nals /\ unit' = unit /\ delimited' = delimited /\ nals # <<>> /\ annexB'
          /\ misread' = IF misread = 0 THEN 0 ELSE 1
      BY <2>2 DEF FindStartCode, captureVars
    <3>2. Coming'
      BY <1>2, <3>1 DEF Coming, Capture
    <3>3. misread' \in 0 .. MisreadMax /\ (misread' = 0 => misread = 0)
      BY <3>1, BoundAssumption DEF IInv, TypeOK
    <3> QED
      BY <3>1, <3>2, <3>3
  <2>3. CASE DropBuffer
    <3>1. /\ nals' = Tail(nals) /\ unit' = unit /\ delimited' = delimited /\ nals # <<>>
          /\ annexB' = annexB /\ misread' = misread /\ ~annexB
      BY <2>3 DEF DropBuffer, parserVars
    <3>2. Coming'
      BY <1>2, <3>1, TakeOne
    <3> QED
      BY <3>1, <3>2 DEF IInv, TypeOK
  <2> QED
    BY <2>1, <2>2, <2>3
<1>4. annexB => nals # <<>>
  BY DEF IInv, Capture
<1>5. Sound' /\ WholeUnits' /\ Frames' = Frames /\ Video' = Video
  BY <1>1, Still, Unsent DEF IInv, Sound
<1>6. TypeOK' /\ Capture'
  BY <1>1, <1>3 DEF IInv, TypeOK, Coming
<1>7. StartsDecodable'
  BY <1>1, <1>3 DEF IInv, StartsDecodable, Real
<1>8. Gated'
  BY <1>1, <1>3, <1>5 DEF IInv, Gated
<1>9. sps \in Sets => annexB /\ nals'[1] = nals[1]
  BY <1>1, <1>3, <1>4, Collecting
<1>10. Synchronised'
  <2> SUFFICES ASSUME NEW x, x = nals[1], NEW y, y = nals'[1], sps \in Sets
               PROVE  Abreast(y)'
    BY <1>1 DEF Synchronised
  <2>1. Abreast(x) /\ x = y
    BY <1>1, <1>9, Collecting
  <2>2. (Cleared(x) <=> Cleared(x)') /\ (Collected(x) <=> Collected(x)')
    BY <1>1, <1>3 DEF Cleared, Collected
  <2> QED
    BY <1>1, <1>3, <1>5, <2>1, <2>2 DEF Abreast
<1>11. UpToDate'
  <2> SUFFICES ASSUME NEW m, m = Len(sent'), Frames' # {}
               PROVE  /\ m \in Video'
                      /\ UnitOf(m)' + 1 = IF vcl' = <<>> THEN nals'[1].unit ELSE vcl'[1].unit
    BY DEF UpToDate
  <2>1. sps \in Sets
    BY <1>1, <1>5 DEF IInv, Gated
  <2> QED
    BY <1>1, <1>5, <1>9, <2>1, Still
<1> QED
  BY <1>5, <1>6, <1>7, <1>8, <1>10, <1>11 DEF IInv, Sound

LEMMA StutterKeeps ==
  ASSUME IInv, UNCHANGED vars
  PROVE  IInv'
<1>1. /\ UNCHANGED captureVars /\ UNCHANGED parserVars /\ UNCHANGED frameVars
  BY DEF vars
<1>2. CASE running
  <2>1. Frames' = Frames /\ Video' = Video /\ Sound' /\ WholeUnits'
    BY <1>1, <1>2, Still, Unsent DEF IInv, Sound, frameVars
  <2>2. TypeOK' /\ Capture' /\ StartsDecodable' /\ Gated'
    BY <1>1, <2>1 DEF IInv, TypeOK, Capture, StartsDecodable, Real, Gated,
                      captureVars, parserVars, frameVars
  <2>3. Synchronised'
    <3> SUFFICES ASSUME NEW x, x = nals[1], sps \in Sets
                 PROVE  Abreast(x)'
      BY <1>1 DEF Synchronised, captureVars, frameVars
    <3>1. Abreast(x)
      BY <1>2, Collecting
    <3>2. (Cleared(x) <=> Cleared(x)') /\ (Collected(x) <=> Collected(x)')
      BY <1>1 DEF Cleared, Collected, captureVars, frameVars
    <3> QED
      BY <1>1, <2>1, <3>1, <3>2 DEF Abreast, parserVars, frameVars
  <2>4. UpToDate'
    <3> SUFFICES ASSUME NEW m, m = Len(sent'), Frames' # {}
                 PROVE  /\ m \in Video'
                        /\ UnitOf(m)' + 1 = IF vcl' = <<>> THEN nals'[1].unit ELSE vcl'[1].unit
      BY DEF UpToDate
    <3> QED
      BY <1>1, <1>2, <2>1, Still DEF captureVars, frameVars
  <2> QED
    BY <2>1, <2>2, <2>3, <2>4 DEF IInv, Sound
<1>3. CASE ~running
  <2>1. /\ Sound' /\ Video' = Video
        /\ \A i \in Video : UnitOf(i)' = UnitOf(i) /\ (Whole(i)' <=> Whole(i))
    BY <1>1, Unsent DEF IInv, Sound, frameVars
  <2>2. \A i \in Video : i < Len(sent) => Whole(i)
    BY DEF IInv, WholeUnits
  <2>3. Ended'
    BY <1>1, <2>1, <2>2 DEF Ended, IInv, TypeOK, StartsDecodable, Real, Gated,
                            parserVars, frameVars
  <2> QED
    BY <1>1, <1>3, <2>3, EndKeeps DEF IInv, TypeOK, frameVars
<1> QED
  BY <1>2, <1>3 DEF IInv, TypeOK

\* Each step of the capture, the parser or StreamFrames keeps the invariant.
LEMMA Inductive ==
  ASSUME IInv, [Next]_vars
  PROVE  IInv'
<1>1. CASE Units
  <2>1. CASE sps \notin Sets
    BY <1>1, <2>1, OutOfStep
  <2>2. CASE sps \in Sets
    BY <1>1, <2>2, DelimiterInStep, SPSInStep, PPSInStep, SEIInStep, VCLInStep DEF Units
  <2> QED
    BY <2>1, <2>2
<1>2. CASE NextUnit \/ FindStartCode \/ DropBuffer
  BY <1>2, CaptureKeeps
<1>3. CASE CaptureEnds
  BY <1>3, CaptureEndKeeps
<1>4. CASE SendFails
  BY <1>4, SendFailKeeps
<1>5. CASE UNCHANGED vars
  BY <1>5, StutterKeeps
<1> QED
  BY <1>1, <1>2, <1>3, <1>4, <1>5 DEF Next

LEMMA InitInv == Init => IInv
<1> SUFFICES ASSUME Init PROVE IInv
  OBVIOUS
<1>1. PICK u \in AccessUnits(1, delimited) :
        \E k \in 1 .. Len(u) + 1 : nals = SubSeq(u, k, Len(u))
  BY DEF Init
<1>2. delimited \in BOOLEAN /\ unit = 1 /\ annexB = FALSE
  BY DEF Init
<1>3. Chained(u, 1, delimited)
  BY <1>2, AccessUnitChained
<1>4. PICK k \in 1 .. Len(u) + 1 : nals = SubSeq(u, k, Len(u))
  BY <1>1
<1>5. Coming
  BY <1>2, <1>3, <1>4, Rest
<1>6. TypeOK
  <2>1. <<>> \in Seq(Nals) /\ <<>> \in Seq(Frame) /\ 0 \in 0 .. MisreadMax
    BY BoundAssumption
  <2>2. /\ running = TRUE /\ annexB = FALSE /\ streamPrimed = FALSE /\ pendingKeyframe = FALSE
        /\ vcl = <<>> /\ sent = <<>> /\ misread = 0 /\ sps = NoSet /\ pps = NoSet
    BY DEF Init
  <2> QED
    BY <1>5, <2>1, <2>2 DEF TypeOK, Coming
<1>7. Frames = {} /\ Video = {}
  BY DEF Init, Frames, Video
<1>8. WholeUnits /\ CodecFits /\ Joined /\ UpToDate /\ Synchronised
  BY <1>7, SetAssumption DEF Init, WholeUnits, CodecFits, Joined, UpToDate, Synchronised
<1>9. StartsDecodable /\ Gated
  BY <1>7, SetAssumption DEF Init, StartsDecodable, Gated
<1> QED
  BY <1>5, <1>6, <1>8, <1>9 DEF IInv, Coming

\* In step, what has been sent last is the access unit before the one in progress.
LEMMA Lag == IInv => OneBehind
<1> SUFFICES ASSUME IInv, running, vcl # <<>>,
                    IF misread = 0 THEN streamPrimed ELSE Video # {}
             PROVE  /\ vcl[1].unit >= unit - 2
                    /\ \E i \in Video : UnitOf(i) = vcl[1].unit - 1 /\ \A j \in Video : j <= i
  BY DEF OneBehind
<1>1. /\ sent \in Seq(Frame) /\ Len(sent) \in Nat /\ Frames \subseteq 1 .. Len(sent)
      /\ Video \subseteq Frames
  BY LenProperties DEF IInv, TypeOK, Frames, Video
<1>2. Frames # {}
  <2>1. CASE misread = 0
    <3>1. sent # <<>> /\ Real(1)
      BY <2>1 DEF IInv, Gated, StartsDecodable
    <3>2. 1 \in 1 .. Len(sent) /\ 1 \in 1 .. 1
      <4>1. Len(sent) # 0
        BY <1>1, <3>1, EmptySeq
      <4> QED
        BY <1>1, <4>1
    <3> QED
      BY <1>1, <3>1, <3>2 DEF Frames
  <2>2. CASE misread # 0
    BY <1>1, <2>2
  <2> QED
    BY <2>1, <2>2
<1>3. /\ Len(sent) \in Video /\ UnitOf(Len(sent)) + 1 = vcl[1].unit /\ sps \in Sets
  BY <1>2 DEF IInv, UpToDate, Gated
<1>4. UnitOf(Len(sent)) \in Nat
  <2>1. /\ sent[Len(sent)].kind = "video" /\ sent[Len(sent)].slices # <<>>
        /\ sent[Len(sent)] \in Frame
    BY <1>1, <1>3, ElementOfSeq DEF IInv, Joined, Video
  <2>2. sent[Len(sent)].slices \in Seq(Nals)
    BY <2>1 DEF Frame
  <2>3. sent[Len(sent)].slices[1] \in Nals
    BY <2>1, <2>2, EmptySeq, LenProperties, ElementOfSeq
  <2> QED
    BY <2>3 DEF UnitOf, Nals
<1>5. vcl[1].unit >= unit - 2
  <2>1. annexB /\ Collected(nals[1])
    BY <1>3, Collecting
  <2>2. /\ Len(nals) \in Nat \ {0} /\ unit \in Nat /\ nals \in Seq(Nals)
    BY <2>1, EmptySeq, LenProperties DEF IInv, TypeOK, Capture
  <2>3. nals[1].unit \in {unit - 1, unit}
    BY <2>2 DEF IInv, Capture
  <2>4. nals[1].unit \in {vcl[1].unit, vcl[1].unit + 1}
    BY <2>1 DEF Collected, SameUnit
  <2>5. vcl[1].unit \in Int
    BY <1>3, <1>4
  <2> QED
    BY <2>2, <2>3, <2>4, <2>5
<1> QED
  BY <1>1, <1>3, <1>4, <1>5

\* Two video frames with none between them are one access unit apart.
LEMMA NoneBetween == IInv => NoUnitMissing
<1> SUFFICES ASSUME IInv, NEW i \in Video, NEW j \in Video, i < j,
                    \A k \in Video : ~(i < k /\ k < j)
             PROVE  UnitOf(j) = UnitOf(i) + 1
  BY DEF NoUnitMissing
<1>1. /\ sent \in Seq(Frame) /\ Len(sent) \in Nat /\ DOMAIN sent = 1 .. Len(sent)
      /\ Frames \subseteq 1 .. Len(sent) /\ Video \subseteq Frames
  BY LenProperties DEF IInv, TypeOK, Frames, Video
<1>2. \A k \in i .. j : k \in Frames
  <2>1. PICK l \in 1 .. i : Real(l)
    BY <1>1 DEF Frames
  <2>2. i \in 1 .. Len(sent) /\ j \in 1 .. Len(sent)
    BY <1>1
  <2> SUFFICES ASSUME NEW k \in i .. j PROVE k \in Frames
    OBVIOUS
  <2>3. k \in 1 .. Len(sent) /\ l \in 1 .. k
    BY <1>1, <2>1, <2>2
  <2> QED
    BY <1>1, <2>1, <2>3 DEF Frames
<1>3. i \in Nat /\ j \in Nat /\ j <= Len(sent) /\ i >= 1
  BY <1>1
<1>4. CASE j = i + 1
  <2>1. j - 1 = i
    BY <1>3, <1>4
  <2> QED
    BY <2>1 DEF IInv, Joined
<1>5. CASE j # i + 1
  <2>1. i + 1 \in i .. j /\ i < i + 1 /\ i + 1 < j /\ i + 1 < Len(sent)
    BY <1>3, <1>5
  <2>2. i + 1 \in Frames /\ i + 1 \notin Video
    BY <1>2, <2>1
  <2>3. sent[i + 1].kind = "codec"
    <3>1. sent[i + 1] \in Frame
      BY <1>1, <2>2, ElementOfSeq
    <3>2. sent[i + 1].kind # "video"
      BY <2>2 DEF Video
    <3> QED
      BY <3>1, <3>2 DEF Frame
  <2>4. (i + 1) + 1 \in Video
    BY <2>1, <2>2, <2>3 DEF IInv, CodecFits
  <2>5. j - 2 = i /\ j - 1 = i + 1
    <3>1. ~(i < (i + 1) + 1 /\ (i + 1) + 1 < j)
      BY <2>4
    <3> QED
      BY <1>3, <2>1, <3>1
  <2> QED
    BY <2>2, <2>5 DEF IInv, Joined
<1> QED
  BY <1>4, <1>5

\* In every behaviour, joined anywhere and with anything before the first start code.
LEMMA Always == Spec => []IInv
  BY InitInv, Inductive, PTL DEF Spec

\* What has gone out is at every moment a stream that a decoder can follow: whole
\* access units, keyframes behind their own parameter sets, and at most one behind.
THEOREM Invariance == Spec => []Inv
<1>1. IInv => Inv
  BY Lag DEF Inv
<1> QED
  BY <1>1, Always, PTL

\* From the first real codec frame on no access unit is missing.
THEOREM Complete == Spec => []NoUnitMissing
  BY NoneBetween, Always, PTL

-----------------------------------------------------------------------------
(* The fan-out                                                             *)

\* Each step of Run, of a reader or of an owner keeps the invariant.  An open
\* sink's pieces reach up to what Run has handed to it; only Read moves that
\* mark, and only the end of a write, which needs the whole chunk taken, passes
\* the mark on to the next sink.
LEMMA FanInductive ==
  ASSUME FanInv, [FanNext]_fanVars
  PROVE  FanInv'
<1> USE SinkAssumption, ChunkAssumption
        DEF FanInv, FanTypeOK, Gapless, RunInv, SinkInv,
            Reached, runVars, sinkVars, ownerVars
<1>1. CASE Start BY <1>1 DEF Start
<1>2. CASE Pump BY <1>2 DEF Pump
<1>3. CASE SourceEnds BY <1>3 DEF SourceEnds
<1>4. CASE NextSink BY <1>4 DEF NextSink
<1>5. CASE WriteDone BY <1>5 DEF WriteDone
<1>6. ASSUME NEW s \in Sinks, WriteFails(s) PROVE FanInv'
  BY <1>6 DEF WriteFails, CloseSink
<1>7. CASE Served BY <1>7 DEF Served
<1>8. CASE CloseOne BY <1>8 DEF CloseOne, CloseSink
<1>9. CASE Done BY <1>9 DEF Done
<1>10. ASSUME NEW s \in Sinks, AddSink(s) PROVE FanInv' BY <1>10 DEF AddSink
<1>11. ASSUME NEW s \in Sinks, StartReading(s) PROVE FanInv'
  BY <1>11 DEF StartReading
<1>12. ASSUME NEW s \in Sinks, Read(s) PROVE FanInv' BY <1>12 DEF Read
<1>13. ASSUME NEW s \in Sinks, ReadFails(s) PROVE FanInv'
  BY <1>13 DEF ReadFails, PipeReadError
<1>14. ASSUME NEW s \in Sinks, Leave(s) PROVE FanInv' BY <1>14 DEF Leave
<1>15. ASSUME NEW s \in Sinks, Close(s) PROVE FanInv'
  BY <1>15 DEF Close, CloseSink
<1>16. CASE UNCHANGED fanVars BY <1>16 DEF fanVars
<1> QED
  BY <1>1, <1>2, <1>3, <1>4, <1>5, <1>6, <1>7, <1>8, <1>9, <1>10, <1>11, <1>12, <1>13,
     <1>14, <1>15, <1>16 DEF FanNext, RunStep

LEMMA FanStarts == FanInit => FanInv
  BY SinkAssumption
     DEF FanInit, FanInv, FanTypeOK, Gapless, RunInv, SinkInv,
         Reached

\* In every behaviour, whatever sinks come and go.
THEOREM FanInvariance == FanSpec => []FanInv
<1>1. FanInit => FanInv
  BY FanStarts
<1>2. FanInv /\ [FanNext]_fanVars => FanInv'
  BY FanInductive
<1> QED
  BY <1>1, <1>2, PTL DEF FanSpec

\* No interleaving makes a stream miss a piece between two that it got.
THEOREM NoGaps == FanSpec => []Gapless
<1>1. FanInv => Gapless
  BY DEF FanInv
<1> QED
  BY <1>1, FanInvariance, PTL

\* Between chunks no open sink lags, and none that is open was forgotten.
THEOREM Lockstep ==
  FanSpec => [](InStep /\ OpenStaysRegistered)
<1>1. FanInv => InStep
  BY DEF FanInv, FanTypeOK, RunInv, SinkInv, Reached, InStep
<1>2. FanInv => OpenStaysRegistered
  BY DEF FanInv, SinkInv, OpenStaysRegistered
<1> QED
  BY <1>1, <1>2, FanInvariance, PTL

\* What is handed to an open sink lies above all that it has got.
THEOREM Once == FanSpec => NothingTwice
<1> DEFINE Fresh == \A s \in Sinks : s = cur /\ off' > off
                      => (base + off + 1) .. (base + off') \cap got[s] = {}
<1>1. ASSUME FanInv, [FanNext]_fanVars, NEW s \in Sinks, s = cur, off' > off
      PROVE  (base + off + 1) .. (base + off') \cap got[s] = {}
  <2> USE <1>1 DEF FanInv, FanTypeOK
  <2>1. ASSUME NEW r \in Sinks, Read(r)
        PROVE  (base + off + 1) .. (base + off') \cap got[s] = {}
    BY <2>1 DEF Read, SinkInv, Reached
  <2>2. CASE \/ Start \/ Pump \/ SourceEnds \/ RunStep \/ UNCHANGED fanVars
            \/ \E r \in Sinks : \/ AddSink(r) \/ StartReading(r)
                                \/ ReadFails(r) \/ Leave(r) \/ Close(r)
    BY <2>2 DEF Start, Pump, SourceEnds, RunStep, NextSink, WriteDone,
                Served, CloseOne, Done, WriteFails, AddSink,
                StartReading, ReadFails, Leave, Close, fanVars, runVars
  <2> QED
    BY <2>1, <2>2 DEF FanNext
<1>2. FanInv /\ [FanNext]_fanVars => [Fresh]_fanVars
  BY <1>1
<1> QED
  BY <1>2, FanInvariance, PTL DEF FanSpec, NothingTwice
=============================================================================
