---------------------------- MODULE VideoFraming ----------------------------
(***************************************************************************)
(* How MirrorSession.StreamFrames, internal/airplay/mirror.go, makes mirror*)
(* frames of the NAL units of a capture: it collects the slices of an      *)
(* access unit, puts a codec frame before each keyframe, and, as a stream  *)
(* may join a capture that runs, sends nothing before it can be decoded.   *)
(* Below it is h264Parser, which gives a NAL unit when it finds the start  *)
(* code of the next.  What has no start code it takes for length-prefixed: *)
(* so, when a stream joins in a NAL unit, up to the first start code, and  *)
(* may make any NAL units of the bytes of a slice.                         *)
(*                                                                         *)
(* The encoder behind the capture, with h264parse config-interval=-1,      *)
(* repeats the parameter sets before each IDR picture; it may delimit the  *)
(* access units and cut a picture into several slices.                     *)
(***************************************************************************)
EXTENDS Naturals, Sequences

CONSTANTS Sets,       \* versions of the parameter sets
          NoSet,      \* latestSPS or latestPPS is nil
          Noise,      \* parameter sets that are no such thing
          SliceMax,   \* the most slices of a picture
          MisreadMax, \* bounds the NAL units that the parser makes up
          UnitMax     \* bounds the length of the capture

ASSUME SetAssumption == NoSet \notin Sets /\ Noise \notin Sets \cup {NoSet}
ASSUME BoundAssumption == SliceMax \in Nat /\ MisreadMax \in Nat /\ UnitMax \in Nat

VARIABLES
  \* The capture: whether the encoder writes delimiters, the number of the access
  \* unit in progress, and the NAL units that are still to come.
  delimited, unit, nals,
  \* h264Parser: whether its buffer begins with a start code, that of nals[1]; and
  \* how many NAL units it has given that are none, or, behind the first start code,
  \* only whether it has.
  annexB, misread,
  \* StreamFrames: latestSPS, latestPPS, vclBuf, pendingKeyframe, streamPrimed
  \* (codecSent is only TRUE within one flush), what was sent, and whether it
  \* still runs.
  sps, pps, vcl, pendingKeyframe, streamPrimed, sent, running

captureVars == <<delimited, unit, nals>>
parserVars == <<annexB, misread>>
frameVars == <<sps, pps, vcl, pendingKeyframe, streamPrimed, sent, running>>
vars == <<captureVars, parserVars, frameVars>>

-----------------------------------------------------------------------------
\* The capture.

\* A NAL unit of access unit n, a picture of so many slices.  The code looks at its
\* type, at the parameters in a set, and of a slice at whether it is IDR and the first.
Nal(type, n, idr, v, i, of) ==
  [type |-> type, unit |-> n, idr |-> idr, set |-> v, part |-> i, of |-> of]

\* The NAL units of access unit n.
AccessUnit(n, idr, v, of, aud, sei) ==
  (IF aud THEN <<Nal("aud", n, idr, v, 0, of)>> ELSE <<>>)
  \o (IF idr THEN <<Nal("sps", n, idr, v, 0, of), Nal("pps", n, idr, v, 0, of)>> ELSE <<>>)
  \o (IF sei THEN <<Nal("sei", n, idr, v, 0, of)>> ELSE <<>>)
  \o [i \in 1 .. of |-> Nal("slice", n, idr, v, i, of)]

AccessUnits(n, aud) ==
  {AccessUnit(n, idr, v, of, aud, sei) :
     idr \in BOOLEAN, v \in Sets, of \in 1 .. SliceMax, sei \in BOOLEAN}

\* The sink was added somewhere in a picture.
Init ==
  /\ delimited \in BOOLEAN
  /\ unit = 1
  /\ \E whole \in AccessUnits(1, delimited) :
       \E k \in 1 .. Len(whole) + 1 : nals = SubSeq(whole, k, Len(whole))
  /\ annexB = FALSE /\ misread = 0
  /\ sps = NoSet /\ pps = NoSet
  /\ vcl = <<>>
  /\ pendingKeyframe = FALSE
  /\ streamPrimed = FALSE
  /\ sent = <<>>
  /\ running = TRUE

NextUnit ==
  /\ running
  /\ Len(nals) <= 1 /\ unit < UnitMax
  /\ unit' = unit + 1
  /\ \E next \in AccessUnits(unit + 1, delimited) : nals' = nals \o next
  /\ UNCHANGED <<delimited, parserVars, frameVars>>

-----------------------------------------------------------------------------
\* h264Parser.

\* The first start code, after which the buffer always begins with one.
FindStartCode ==
  /\ running /\ ~annexB /\ nals # <<>>
  /\ annexB' = TRUE
  /\ misread' = IF misread = 0 THEN 0 ELSE 1
  /\ UNCHANGED <<captureVars, frameVars>>

\* pushAVCC drops its buffer at what can be no length, and with it the begin of
\* a start code that ended the chunk: that NAL unit is lost as well.
DropBuffer ==
  /\ running /\ ~annexB /\ nals # <<>>
  /\ nals' = Tail(nals)
  /\ UNCHANGED <<delimited, unit, parserVars, frameVars>>

\* What pushAVCC makes of the bytes of a slice if they begin with a length.  That
\* such slices each begin a picture only keeps them apart from one another.
Misreads ==
  {Nal(type, 0, FALSE, Noise, 0, 2) : type \in {"aud", "sps", "pps", "sei"}}
    \cup {Nal("slice", 0, idr, Noise, 1, 2) : idr \in BOOLEAN}

\* The NAL units of a type that Push may give next, and what it keeps.
Parsed(type) ==
  {nal \in IF annexB THEN IF Len(nals) > 1 THEN {nals[1]} ELSE {}
            ELSE IF misread < MisreadMax THEN Misreads ELSE {} : nal.type = type}

Push ==
  /\ running
  /\ nals' = IF annexB THEN Tail(nals) ELSE nals
  /\ misread' = IF annexB THEN misread ELSE misread + 1
  /\ UNCHANGED <<delimited, unit, annexB>>

-----------------------------------------------------------------------------
\* StreamFrames.

\* Faulty: the gate does not stay open.
KeyframesOnly == pendingKeyframe /\ sps # NoSet /\ pps # NoSet

\* Whether the gate of flushVCL lets the access unit pass.
Decodable == streamPrimed \/ (pendingKeyframe /\ sps # NoSet /\ pps # NoSet)

\* What flushVCL sends.
Flushed ==
  IF vcl = <<>> \/ ~Decodable THEN <<>>
  ELSE (IF pendingKeyframe /\ sps # NoSet /\ pps # NoSet
        THEN <<[kind |-> "codec", sps |-> sps, pps |-> pps]>> ELSE <<>>)
       \o <<[kind |-> "video", key |-> pendingKeyframe, slices |-> vcl]>>

\* flushVCL, after which more is appended and the keyframe flag is key, or is what
\* the flush leaves.  An access unit that is dropped leaves the flag.
Flush(more, key) ==
  /\ sent' = sent \o Flushed
  /\ vcl' = more
  /\ streamPrimed' = (streamPrimed \/ \E i \in DOMAIN Flushed : Flushed[i].kind = "codec")
  /\ pendingKeyframe' = (key \/ (pendingKeyframe /\ ~(vcl # <<>> /\ Decodable)))

\* The same NAL unit without a flush.
Keep(more, key) ==
  /\ vcl' = vcl \o more
  /\ pendingKeyframe' = (key \/ pendingKeyframe)
  /\ UNCHANGED <<sent, streamPrimed>>

\* Delimiter: the access unit before it is complete.
Delimiter ==
  /\ Parsed("aud") # {} /\ Push
  /\ Flush(<<>>, FALSE)
  /\ UNCHANGED <<sps, pps, running>>

\* Faulty: the parameters are exchanged below the access unit before them.
SPSUnflushed ==
  \E nal \in Parsed("sps") :
    /\ Push
    /\ sps' = nal.set
    /\ UNCHANGED <<vcl, pendingKeyframe, streamPrimed, sent, pps, running>>

SPS ==
  \E nal \in Parsed("sps") :
    /\ Push
    /\ Flush(<<>>, FALSE)
    /\ sps' = nal.set
    /\ UNCHANGED <<pps, running>>

PPS ==
  \E nal \in Parsed("pps") :
    /\ Push
    /\ pps' = nal.set
    /\ UNCHANGED <<sps, vcl, pendingKeyframe, streamPrimed, sent, running>>

SEI ==
  /\ Parsed("sei") # {} /\ Push
  /\ UNCHANGED frameVars

\* isFirstSlice, and the switches between IDR and other slices: the slice starts
\* another access unit than the one that is being collected.  A slice that is
\* not IDR always ends a pending keyframe.
EndsUnit(slice) == /\ vcl # <<>>
                   /\ slice.part = 1 \/ slice.idr # pendingKeyframe

VCL ==
  \E slice \in Parsed("slice") :
    /\ Push
    /\ IF EndsUnit(slice) THEN Flush(<<slice>>, slice.idr) ELSE Keep(<<slice>>, slice.idr)
    /\ UNCHANGED <<sps, pps, running>>

\* The capture ends.  For the reader of a process, what is pending is flushed, but
\* not what the parser holds; the reader of a closed sink sees an error and does not.
CaptureEnds ==
  /\ running
  /\ running' = FALSE
  /\ Flush(<<>>, FALSE) \/ UNCHANGED <<sent, vcl, streamPrimed, pendingKeyframe>>
  /\ UNCHANGED <<captureVars, parserVars, sps, pps>>

\* A send fails and ends the stream: of what is to be sent, a part has gone out.
SendFails ==
  /\ running
  /\ running' = FALSE
  /\ \E k \in 0 .. Len(Flushed) - 1 : sent' = sent \o SubSeq(Flushed, 1, k)
  /\ UNCHANGED <<captureVars, parserVars, sps, pps, vcl, streamPrimed, pendingKeyframe>>

Units == Delimiter \/ SPS \/ PPS \/ SEI \/ VCL

Next == NextUnit \/ FindStartCode \/ DropBuffer \/ Units \/ CaptureEnds \/ SendFails

Spec == Init /\ [][Next]_vars

\* The encoder goes on, and StreamFrames takes what the parser gives it.
FairSpec == Spec /\ WF_vars(NextUnit) /\ WF_vars(annexB /\ Units)

-----------------------------------------------------------------------------
Nals == [type : {"aud", "sps", "pps", "sei", "slice"}, unit : Nat, idr : BOOLEAN,
         set : Sets \cup {Noise}, part : Nat, of : Nat]
Frame == [kind : {"codec"}, sps : Sets \cup {Noise}, pps : Sets \cup {Noise}]
           \cup [kind : {"video"}, key : BOOLEAN, slices : Seq(Nals)]

TypeOK ==
  /\ delimited \in BOOLEAN /\ running \in BOOLEAN
  /\ unit \in Nat /\ nals \in Seq(Nals)
  /\ annexB \in BOOLEAN /\ misread \in 0 .. MisreadMax
  /\ sps \in Sets \cup {NoSet, Noise} /\ pps \in Sets \cup {NoSet, Noise}
  /\ vcl \in Seq(Nals) /\ pendingKeyframe \in BOOLEAN /\ streamPrimed \in BOOLEAN
  /\ sent \in Seq(Frame)

\* The frames that the properties are about: those from the first codec frame on
\* that has real parameter sets.  Until then NAL units that the parser made up may
\* have opened the gate; where it has made up none, all frames are.
Real(i) == sent[i].kind = "codec" /\ sent[i].sps \in Sets /\ sent[i].pps \in Sets
Frames == {i \in DOMAIN sent : \E j \in 1 .. i : Real(j)}
Video == {i \in Frames : sent[i].kind = "video"}
UnitOf(i) == sent[i].slices[1].unit

Whole(i) == LET f == sent[i].slices
            IN  /\ Len(f) = f[1].of
                /\ \A j \in DOMAIN f : f[j].part = j /\ f[j].unit = f[1].unit

\* Each video frame of a stream that goes on is one access unit, whole: all of
\* its slices in order, and none of another picture, with delimiters or without,
\* and wherever in a picture the stream joined.
WholeUnits == \A i \in Video : running \/ i < Len(sent) => Whole(i)

\* From the first picture on, every access unit is sent once and in order: the
\* pictures that a P picture refers to have all been sent.
NoUnitMissing ==
  \A i, j \in Video : i < j => \/ UnitOf(j) = UnitOf(i) + 1
                               \/ \E k \in Video : i < k /\ k < j

\* A keyframe is marked as one and comes right after a codec frame with its own
\* parameter sets, and a codec frame comes before nothing else.
CodecFits ==
  /\ \A i \in Video : /\ sent[i].key = sent[i].slices[1].idr
                      /\ sent[i].key => /\ i > 1 /\ sent[i - 1].kind = "codec"
                                        /\ sent[i - 1].sps = sent[i].slices[1].set
                                        /\ sent[i - 1].pps = sent[i].slices[1].set
  /\ \A i \in Frames : sent[i].kind = "codec" /\ i < Len(sent) => i + 1 \in Video /\ sent[i + 1].key

\* "drop VCL units to avoid sending undecodable non-IDR frames": a decoder can
\* start with what is sent first.
StartsDecodable == sent # <<>> => sent[1].kind = "codec" /\ (misread = 0 => Real(1))

\* Once primed, nothing is held back but the access unit in progress: when a slice
\* of one has come, the one before it has been sent.
OneBehind ==
  running /\ vcl # <<>> /\ (IF misread = 0 THEN streamPrimed ELSE Video # {}) =>
    /\ vcl[1].unit >= unit - 2
    /\ \E i \in Video : UnitOf(i) = vcl[1].unit - 1 /\ \A j \in Video : j <= i

\* What these rest on, with which they are inductive.  The types of the NAL units
\* of an access unit that may come after one of a type.
Then(type, idr) ==
  CASE type = "aud" -> IF idr THEN {"sps"} ELSE {"sei", "slice"}
    [] type = "sps" -> {"pps"}
    [] type = "pps" -> {"sei", "slice"}
    [] OTHER        -> {"slice"}

SameUnit(x, y) == x.unit = y.unit /\ x.idr = y.idr /\ x.set = y.set /\ x.of = y.of

Follows(x, y, aud) ==
  IF x.type = "slice" /\ x.part = x.of
  THEN /\ y.unit = x.unit + 1 /\ y.part = IF y.type = "slice" THEN 1 ELSE 0
       /\ y.type \in IF aud THEN {"aud"} ELSE Then("aud", y.idr)
  ELSE /\ y.type \in Then(x.type, x.idr) /\ SameUnit(x, y)
       /\ y.part = IF y.type = "slice" THEN x.part + 1 ELSE 0

Genuine(x, aud) ==
  /\ x.set \in Sets /\ x.part <= x.of /\ x.of > 0 /\ (x.type = "slice" <=> x.part > 0)
  /\ x.type = "aud" => aud
  /\ x.type \in {"sps", "pps"} => x.idr

\* The capture goes on without a gap up to the end of an access unit.
Capture ==
  /\ \A i \in 1 .. Len(nals) : Genuine(nals[i], delimited) /\ nals[i].unit \in {unit - 1, unit}
  /\ \A i \in 1 .. Len(nals) - 1 : Follows(nals[i], nals[i + 1], delimited)
  /\ nals # <<>> => LET last == nals[Len(nals)]
                    IN  last.type = "slice" /\ last.part = last.of /\ last.unit = unit
  /\ annexB => nals # <<>>
  /\ Len(nals) > 1 => \A i \in 2 .. Len(nals) : nals[i].unit = unit

\* Where the access unit that was collected has been sent before the NAL unit x.
Cleared(x) ==
  \/ x.type = "pps"
  \/ x.type = "sps" /\ delimited
  \/ (x.type = "sei" \/ (x.type = "slice" /\ x.part = 1)) /\ (x.idr \/ delimited)

\* What has been collected is the part of an access unit before x, or all of the
\* one before.
Collected(x) ==
  /\ vcl # <<>> /\ vcl[1].set \in Sets
  /\ \A i \in 1 .. Len(vcl) : SameUnit(vcl[i], vcl[1]) /\ vcl[i].part = i
  /\ IF x.type = "slice" /\ x.part > 1
     THEN SameUnit(vcl[1], x) /\ Len(vcl) = x.part - 1
     ELSE vcl[1].unit + 1 = x.unit /\ Len(vcl) = vcl[1].of

\* How StreamFrames stands before the NAL unit x, in step with the capture.
Abreast(x) ==
  /\ annexB
  /\ IF Cleared(x) THEN vcl = <<>> ELSE Collected(x)
  /\ IF vcl = <<>>
     THEN (pendingKeyframe => x.idr) /\ (~x.idr => Frames # {})
     ELSE /\ pendingKeyframe = vcl[1].idr
          /\ IF vcl[1].idr THEN sps = vcl[1].set /\ pps = vcl[1].set ELSE Frames # {}
  /\ x.idr /\ x.type \in {"pps", "sei", "slice"} => sps = x.set
  /\ x.idr /\ x.type \in {"sei", "slice"} => pps = x.set
  /\ x.type # "pps" => pps \in Sets

\* It is so from the first real parameter set on.  Before that nothing real has been
\* sent, and what has been made up is known.
Synchronised == running /\ sps \in Sets => Abreast(nals[1])

Gated ==
  /\ running /\ Frames # {} => sps \in Sets /\ streamPrimed
  /\ streamPrimed => sent # <<>>
  /\ misread = 0 => Noise \notin {sps, pps}

\* The frames are joined one to the next, and the last to what is collected.
Joined ==
  \A i \in Video :
    /\ sent[i].slices # <<>>
    /\ i - 1 \in Video => UnitOf(i) = UnitOf(i - 1) + 1
    /\ i - 1 \notin Video /\ i - 2 \in Video => UnitOf(i) = UnitOf(i - 2) + 1

UpToDate ==
  running /\ Frames # {} =>
    /\ Len(sent) \in Video
    /\ UnitOf(Len(sent)) + 1 = IF vcl = <<>> THEN nals[1].unit ELSE vcl[1].unit

IInv ==
  /\ TypeOK /\ WholeUnits /\ CodecFits /\ StartsDecodable
  /\ Capture /\ Synchronised /\ Gated /\ Joined /\ UpToDate

\* What has gone out, at every moment, is a stream a decoder can follow.
Inv == IInv /\ OneBehind

\* A keyframe that comes with its parameter sets is shown, and so is each picture
\* from then on, as long as the capture goes on: whatever the stream met while it
\* looked for the first start code, no state of the gate is a trap.
PicturesShown ==
  \A n \in 2 .. UnitMax - 2 :
    vcl # <<>> /\ vcl[1].unit = n /\ ((vcl[1].idr /\ {sps, pps} \subseteq Sets) \/ streamPrimed)
      ~> (~running \/ \E i \in DOMAIN sent : sent[i].kind = "video" /\ UnitOf(i) = n)
=============================================================================
